---- MODULE Spec2Model ----
(***************************************************************************)
(* Model of the job ingestion and execution pipeline of the image          *)
(* restoration backend: credit accounting (services/credits.js), the       *)
(* idempotency middleware, the POST /jobs handler and the restoration      *)
(* worker.  Every await on the key-value store, the document store or the  *)
(* queue is one step of the process that runs it, so concurrent requests   *)
(* and worker attempts interleave exactly where the event loop lets them.  *)
(***************************************************************************)
EXTENDS Integers, Sequences, FiniteSets, TLC

(***************************************************************************)
(* Bounds of the model                                                     *)
(***************************************************************************)
NumUsers == 2        \* user ids 1..NumUsers
NumCallers == 2      \* concurrent direct callers of CreditsService
MaxCalls == 2        \* CreditsService calls made by the direct callers
MaxAmount == 2       \* debit amounts range over 1..MaxAmount
MaxBalance == 2      \* initial durable balance ranges over 0..MaxBalance
NumRequests == 2     \* POST /jobs requests served in one run
NumKeys == 1         \* Idempotency-Key values 1..NumKeys
NumBodies == 2       \* distinct JSON bodies (blob references)
NumImages == 2       \* distinct uploaded images (multipart)
MAX_ATTEMPTS == 2    \* JOBS_MAX_ATTEMPTS as configured for the run
MaxTakes == 3        \* calls of store.take in one run
MaxTime == 2         \* the clock runs over the ticks 0..MaxTime
RateLimit == 2       \* the `limit` argument of take (RATE_LIMIT_*_LIMIT)
RateInterval == 2    \* the window of a bucket in ticks (RATE_LIMIT_*_INTERVAL)
MaxHits == 3         \* requests sent through the rate limiter middleware
NumKinds == 2        \* degradation kinds scored by the classifier
MaxBase == 3         \* JOBS_BACKOFF_BASE_MS ranges over 1..MaxBase
MaxAttemptsMade == 2 \* attemptsMade handed to the backoff strategy, 1..MaxAttemptsMade
RandomSteps == 4     \* Math.random() ranges over r / RandomSteps, r below RandomSteps
MaxAdds == 2         \* tasks replayJob may add to the main queue for one entry

(***************************************************************************)
(* Program constants                                                       *)
(***************************************************************************)
DEFAULT_DAILY_FREE_LIMIT == 3
DEFAULT_CREDIT_COST == 1
RESTORATION_MAX_ATTEMPTS == 5      \* restorationQueue.js, MAX_ATTEMPTS
DEFAULT_QUEUE_NAME == "image-restoration-jobs"   \* jobQueue.js
QUEUE_NAME == "image-restoration-jobs"           \* restorationWorker.js
RESTORATION_QUEUE_NAME == "restoration"          \* restorationQueue.js, QUEUE_NAME
CONCURRENCY == 2
GEMINI_ATTEMPTS == 3               \* geminiClient.js, restoreImage

Users == 1..NumUsers
Keys == 1..NumKeys
Callers == {<<"caller", c>> : c \in 1..NumCallers}
Requests == {<<"req", r>> : r \in 1..NumRequests}
Jobs == 1..NumRequests          \* at most one job id per request
Payloads == {[kind |-> "json", content |-> b] : b \in 1..NumBodies} \cup
            {[kind |-> "multipart", content |-> i] : i \in 1..NumImages}

VARIABLES
  useFallbackStore,  \* redisClient.js: the store runs on its in-process maps
  freeUsage,         \* key-value store: free_usage:<user>:<today> -> counter
  creditsCache,      \* key-value store: credits:<user> -> [v, ttl]
  userDocs,          \* document store: users/<user>.credits
  ledger,            \* document store: credit_ledger, in append order
  syncPending,       \* fire-and-forget mirror writes still in flight
  call,              \* per process: the CreditsService call it is inside
  nextJobId,         \* job ids handed out so far (randomUUID is fresh)
  callsMade,         \* number of calls the direct callers have started
  req,               \* per request slot: the POST /jobs request it serves
  idemStore,         \* key-value store: what store.get(key) returns
  restorations,      \* document store: restorations/<jobId>
  task,              \* the queue: per job id the task and its worker attempt
  now,               \* Date.now(), in ticks
  buckets,           \* key-value store: bucket:<key> -> [remaining, reset, pexpire]
  fallbackBuckets,   \* createInMemoryStore: buckets map, key -> [remaining, expiresAt]
  taker,             \* per caller: the store.take call it is inside
  windows,           \* the windows not yet reset, with the takes admitted in each
  takesMade,         \* number of take calls started
  dlq,               \* the 'restoration-dlq' queue: job id -> entry dlq-<id>
  jobsDocs,          \* document store: jobs/<id>.status
  replay,            \* the run of replayJob under way, or the last one
  mainQueueAdds,     \* per dead-letter entry: the tasks replayJob has added for it
  limiter,           \* expressRateLimit: the request inside it and the last response
  reads,             \* the last GET /jobs/:id answer and the event stream
  lockstep,          \* the bucket stores side by side: the third store, the last answers
  restorator,        \* the call of RestoratorService.restore under way
  queueDelay         \* the backoff configuration and the last retry delay

vars == <<useFallbackStore, freeUsage, creditsCache, userDocs, ledger,
          syncPending, call, nextJobId, callsMade, req, idemStore,
          restorations, task, now, buckets, fallbackBuckets, taker, windows,
          takesMade, dlq, jobsDocs, replay, mainQueueAdds, limiter, reads,
          lockstep, restorator, queueDelay>>

dlqVars == <<dlq, jobsDocs, replay, mainQueueAdds>>

readVars == <<reads>>

svcVars == <<restorator, queueDelay>>

rateVars == <<now, buckets, fallbackBuckets, taker, windows, takesMade, limiter,
              lockstep>>

pipeVars == <<req, idemStore, restorations, task>>

storeVars == <<freeUsage, creditsCache, userDocs, ledger, syncPending>>

NoResult == [kind |-> "none", type |-> "none", remaining |-> 0]
IdleCall == [op |-> "none", pc |-> "idle", userId |-> 0, amount |-> 0,
             jobId |-> 0, used |-> 0, balance |-> 0, orig |-> 0,
             result |-> NoResult]

\* the stores CreditsService works on, as one value
Store == [freeUsage |-> freeUsage, creditsCache |-> creditsCache,
          userDocs |-> userDocs, ledger |-> ledger,
          syncPending |-> syncPending]

StoreBecomes(S) ==
  /\ freeUsage' = S.freeUsage
  /\ creditsCache' = S.creditsCache
  /\ userDocs' = S.userDocs
  /\ ledger' = S.ledger
  /\ syncPending' = S.syncPending

(***************************************************************************)
(* Key-value and ledger helpers                                            *)
(***************************************************************************)
\* redis GET of a counter key, then `parseInt(used) || 0`
ParseUsed(store, u) == IF u \in DOMAIN store THEN store[u] ELSE 0

\* write of one key of a key-value map
Put(store, u, value) ==
  [k \in (DOMAIN store) \cup {u} |-> IF k = u THEN value ELSE store[k]]

\* the Lua script of _consumeFreeCredit: the reply and the map afterwards
ConsumeFreeScript(store, u, limit) ==
  LET current == IF u \in DOMAIN store THEN store[u] ELSE 0
  IN  IF current >= limit
        THEN [ret |-> 0, store |-> store]
        ELSE [ret |-> current + 1, store |-> Put(store, u, current + 1)]

\* a compare-and-decrement that decrements whatever the balance is
PaidDebitScriptUnchecked(cache, u, amount) ==
  LET current == IF u \in DOMAIN cache THEN cache[u].v ELSE 0
  IN  [ok |-> 1, balance |-> current - amount,
       cache |-> Put(cache, u, [v |-> current - amount, ttl |-> TRUE])]

\* the Lua script of _checkAndDeductPaidCredits: {ok, balance}
PaidDebitScript(cache, u, amount) ==
  LET current == IF u \in DOMAIN cache THEN cache[u].v ELSE 0
  IN  IF current < amount
        THEN [ok |-> 0, balance |-> current, cache |-> cache]
        ELSE [ok |-> 1, balance |-> current - amount,
              cache |-> Put(cache, u, [v |-> current - amount, ttl |-> TRUE])]

\* redis INCRBY: a missing key counts as 0, the time-to-live is kept
IncrBy(cache, u, amount) ==
  LET current == IF u \in DOMAIN cache THEN cache[u].v ELSE 0
      ttl == IF u \in DOMAIN cache THEN cache[u].ttl ELSE FALSE
  IN  Put(cache, u, [v |-> current + amount, ttl |-> ttl])

\* _recordTransaction: the ledger entry appended by collection.add
RecordTransaction(l, u, j, amount, type, ref) ==
  Append(l, [id |-> Len(l) + 1, userId |-> u, jobId |-> j, amount |-> amount,
             type |-> type, originalTransactionId |-> ref])

\* the query of _getTransactionByJobId: jobId == j and amount < 0
DebitsOfJob(l, j) == {i \in 1..Len(l) : l[i].jobId = j /\ l[i].amount < 0}
RefundsOfJob(l, j) == {i \in 1..Len(l) : l[i].jobId = j /\ l[i].type = "refund"}

Outcome(S, f) == [S |-> S, f |-> f]
Returned(f, res) == [f EXCEPT !.pc = "done", !.result = res]

(***************************************************************************)
(* CreditsService.checkAndDeduct, one await at a time.  Each operator      *)
(* gives the outcomes of one step of the call frame f on the stores S.     *)
(***************************************************************************)
\* _checkDailyFreeUsage, then the `freeUsage.used < dailyLimit` test
checkDailyFreeUsage(S, f) ==
  LET used == ParseUsed(S.freeUsage, f.userId)
  IN  {Outcome(S, [f EXCEPT !.used = used,
                            !.pc = IF used < DEFAULT_DAILY_FREE_LIMIT
                                     THEN "cd_free_eval" ELSE "cd_paid_get"])}

\* _consumeFreeCredit: the eval of the compare-and-increment script.  The
\* in-process eval does not know the script and throws; the throw is caught
\* and the method answers false.
consumeFreeCredit(S, f, fallback) ==
  IF fallback
    THEN {Outcome(S, [f EXCEPT !.pc = "cd_paid_get"])}
    ELSE LET r == ConsumeFreeScript(S.freeUsage, f.userId,
                                    DEFAULT_DAILY_FREE_LIMIT)
         IN  {Outcome([S EXCEPT !.freeUsage = r.store],
                      [f EXCEPT !.pc = IF r.ret > 0 THEN "cd_free_ledger"
                                                    ELSE "cd_paid_get"])}

\* _consumeFreeCredit: the ledger debit; checkAndDeduct returns type free
consumeFreeCreditLedger(S, f) ==
  {Outcome([S EXCEPT !.ledger = RecordTransaction(@, f.userId, f.jobId, -1,
                                                  "free", 0)],
           Returned(f, [kind |-> "allowed", type |-> "free",
                        remaining |-> DEFAULT_DAILY_FREE_LIMIT - f.used - 1]))}

\* _checkAndDeductPaidCredits: redis.get(cacheKey)
paidCreditsGet(S, f) ==
  IF f.userId \in DOMAIN S.creditsCache
    THEN {Outcome(S, [f EXCEPT !.balance = S.creditsCache[f.userId].v,
                               !.pc = "cd_paid_eval"])}
    ELSE {Outcome(S, [f EXCEPT !.pc = "cd_paid_load"])}

\* _loadCreditsFromFirestore
loadCreditsFromFirestore(S, f) ==
  {Outcome(S, [f EXCEPT !.balance = S.userDocs[f.userId],
                        !.pc = "cd_paid_set"])}

\* redis.set(cacheKey, balance, { EX: CACHE_TTL_SECONDS })
paidCreditsCacheSet(S, f) ==
  {Outcome([S EXCEPT !.creditsCache =
                        Put(@, f.userId, [v |-> f.balance, ttl |-> TRUE])],
           [f EXCEPT !.pc = "cd_paid_eval"])}

\* a paid check that books the denied attempt in the ledger
paidCreditsEvalBooksDenial(S, f, fallback) ==
  IF fallback
    THEN {Outcome(S, Returned(f, [kind |-> "threw", type |-> "none",
                                  remaining |-> 0]))}
    ELSE LET r == PaidDebitScript(S.creditsCache, f.userId, f.amount)
         IN  IF r.ok = 1
               THEN {Outcome([S EXCEPT !.creditsCache = r.cache,
                                !.syncPending = @ \cup
                                   {[userId |-> f.userId, balance |-> r.balance]}],
                             [f EXCEPT !.balance = r.balance,
                                       !.pc = "cd_paid_ledger"])}
               ELSE {Outcome([S EXCEPT !.creditsCache = r.cache,
                                !.ledger = RecordTransaction(@, f.userId,
                                              f.jobId, 0 - f.amount, "paid", 0)],
                             Returned(f, [kind |-> "denied", type |-> "paid",
                                          remaining |-> r.balance]))}

\* the eval of the compare-and-decrement script and the mirror it starts;
\* the in-process eval throws and checkAndDeduct rethrows
paidCreditsEval(S, f, fallback) ==
  IF fallback
    THEN {Outcome(S, Returned(f, [kind |-> "threw", type |-> "none",
                                  remaining |-> 0]))}
    ELSE LET r == PaidDebitScript(S.creditsCache, f.userId, f.amount)
         IN  IF r.ok = 1
               THEN {Outcome([S EXCEPT !.creditsCache = r.cache,
                                !.syncPending = @ \cup
                                   {[userId |-> f.userId, balance |-> r.balance]}],
                             [f EXCEPT !.balance = r.balance,
                                       !.pc = "cd_paid_ledger"])}
               ELSE {Outcome([S EXCEPT !.creditsCache = r.cache],
                             Returned(f, [kind |-> "denied", type |-> "paid",
                                          remaining |-> r.balance]))}

\* the ledger debit of a paid deduction; checkAndDeduct returns type paid
paidCreditsLedger(S, f) ==
  {Outcome([S EXCEPT !.ledger = RecordTransaction(@, f.userId, f.jobId,
                                                  0 - f.amount, "paid", 0)],
           Returned(f, [kind |-> "allowed", type |-> "paid",
                        remaining |-> f.balance]))}

(***************************************************************************)
(* CreditsService.refund, one await at a time                              *)
(***************************************************************************)
\* _getTransactionByJobId and the branch on the type of the debit found
getTransactionByJobId(S, f) ==
  IF DebitsOfJob(S.ledger, f.jobId) = {}
    THEN {Outcome(S, Returned(f, [kind |-> "not_found", type |-> "none",
                                  remaining |-> 0]))}
    ELSE {Outcome(S, [f EXCEPT !.orig = i,
                        !.pc = IF S.ledger[i].type = "free"
                                 THEN "rf_free_get" ELSE "rf_paid_incr"]) :
            i \in DebitsOfJob(S.ledger, f.jobId)}

\* _refundFreeCredit: redis.get(key) and the `parseInt(current) > 0` test
refundFreeCreditGet(S, f) ==
  IF f.userId \in DOMAIN S.freeUsage /\ S.freeUsage[f.userId] > 0
    THEN {Outcome(S, [f EXCEPT !.pc = "rf_free_decr"])}
    ELSE {Outcome(S, [f EXCEPT !.pc = "rf_ledger",
                        !.result = [kind |-> "refund_noop", type |-> "free",
                                    remaining |-> 0]])}

\* _refundFreeCredit: redis.decr(key)
refundFreeCreditDecr(S, f) ==
  {Outcome([S EXCEPT !.freeUsage = Put(@, f.userId, ParseUsed(@, f.userId) - 1)],
           [f EXCEPT !.pc = "rf_ledger",
              !.result = [kind |-> "refunded", type |-> "free",
                          remaining |-> 0]])}

\* _refundPaidCredits: redis.incrBy(cacheKey, amount)
refundPaidCreditsIncr(S, f) ==
  LET cache == IncrBy(S.creditsCache, f.userId, f.amount)
  IN  {Outcome([S EXCEPT !.creditsCache = cache],
               [f EXCEPT !.balance = cache[f.userId].v,
                         !.pc = "rf_paid_expire"])}

\* _refundPaidCredits: redis.expire(cacheKey, ttl) and the mirror it starts
refundPaidCreditsExpire(S, f) ==
  {Outcome([S EXCEPT !.creditsCache =
                        [k \in DOMAIN @ |-> IF k = f.userId
                                              THEN [@[k] EXCEPT !.ttl = TRUE]
                                              ELSE @[k]],
                     !.syncPending = @ \cup
                        {[userId |-> f.userId, balance |-> f.balance]}],
           [f EXCEPT !.pc = "rf_ledger",
              !.result = [kind |-> "refunded", type |-> "paid",
                          remaining |-> f.balance]])}

\* refund: the ledger entry of kind refund; refund returns
refundLedger(S, f) ==
  {Outcome([S EXCEPT !.ledger = RecordTransaction(@, f.userId, f.jobId,
                                                  f.amount, "refund", f.orig)],
           [f EXCEPT !.pc = "done"])}

\* the next step of a call in progress
StepOutcomes(S, f, fallback) ==
  CASE f.pc = "cd_usage"       -> checkDailyFreeUsage(S, f)
    [] f.pc = "cd_free_eval"   -> consumeFreeCredit(S, f, fallback)
    [] f.pc = "cd_free_ledger" -> consumeFreeCreditLedger(S, f)
    [] f.pc = "cd_paid_get"    -> paidCreditsGet(S, f)
    [] f.pc = "cd_paid_load"   -> loadCreditsFromFirestore(S, f)
    [] f.pc = "cd_paid_set"    -> paidCreditsCacheSet(S, f)
    [] f.pc = "cd_paid_eval"   -> paidCreditsEval(S, f, fallback)
    [] f.pc = "cd_paid_ledger" -> paidCreditsLedger(S, f)
    [] f.pc = "rf_lookup"      -> getTransactionByJobId(S, f)
    [] f.pc = "rf_free_get"    -> refundFreeCreditGet(S, f)
    [] f.pc = "rf_free_decr"   -> refundFreeCreditDecr(S, f)
    [] f.pc = "rf_paid_incr"   -> refundPaidCreditsIncr(S, f)
    [] f.pc = "rf_paid_expire" -> refundPaidCreditsExpire(S, f)
    [] f.pc = "rf_ledger"      -> refundLedger(S, f)
    [] OTHER                   -> {}

\* a call run from its frame to its return with no other process in between
RECURSIVE RunCall(_, _, _)
RunCall(S, f, fallback) ==
  IF f.pc = "done" THEN {Outcome(S, f)}
  ELSE UNION {RunCall(o.S, o.f, fallback) : o \in StepOutcomes(S, f, fallback)}

CheckAndDeductFrame(u, amount, j) ==
  [IdleCall EXCEPT !.op = "checkAndDeduct", !.pc = "cd_usage", !.userId = u,
                   !.amount = amount, !.jobId = j]
RefundFrame(u, j, amount) ==
  [IdleCall EXCEPT !.op = "refund", !.pc = "rf_lookup", !.userId = u,
                   !.amount = amount, !.jobId = j]

\* CreditsService.checkAndDeduct({userId, amount, jobId}) as one call
checkAndDeduct(S, u, amount, j, fallback) ==
  RunCall(S, CheckAndDeductFrame(u, amount, j), fallback)

\* CreditsService.refund({userId, jobId, amount}) as one call
refund(S, u, j, amount, fallback) ==
  RunCall(S, RefundFrame(u, j, amount), fallback)

(***************************************************************************)
(* Direct callers of the service (as the service tests call it).  The      *)
(* calls are for user 1 and overlap: every step below is one await of one  *)
(* caller.                                                                 *)
(***************************************************************************)
otherVars == <<useFallbackStore, rateVars, svcVars, readVars, dlqVars, nextJobId, req, idemStore, restorations, task>>

\* the frame of a call that has returned: the slot is free again and keeps
\* what the call answered
Settled(f) ==
  IF f.pc = "done"
    THEN [IdleCall EXCEPT !.result = f.result]
    ELSE f

\* one step of the call of caller c
CreditsStep(c) ==
  /\ call[c].pc # "idle"
  /\ \E o \in StepOutcomes(Store, call[c], useFallbackStore) :
       /\ StoreBecomes(o.S)
       /\ call' = [call EXCEPT ![c] = Settled(o.f)]
  /\ UNCHANGED <<otherVars, callsMade>>

\* a call starts in the first free slot (the slots are interchangeable)
FirstFree(c) ==
  /\ call[c].pc = "idle"
  /\ \A d \in Callers : d[2] < c[2] => call[d].pc # "idle"

CallCheckAndDeduct(c) ==
  /\ FirstFree(c)
  /\ callsMade < MaxCalls
  /\ \E a \in 1..MaxAmount :
       call' = [call EXCEPT ![c] = CheckAndDeductFrame(1, a, nextJobId)]
  /\ nextJobId' = nextJobId + 1
  /\ callsMade' = callsMade + 1
  /\ UNCHANGED <<useFallbackStore, rateVars, svcVars, readVars, dlqVars, storeVars, pipeVars>>

\* refund of a job debited before; a paid refund names the amount debited
CallRefund(c) ==
  /\ FirstFree(c)
  /\ callsMade < MaxCalls
  /\ \E i \in 1..Len(ledger) :
       /\ ledger[i].amount < 0
       /\ call' = [call EXCEPT ![c] =
             RefundFrame(ledger[i].userId, ledger[i].jobId, 0 - ledger[i].amount)]
  /\ callsMade' = callsMade + 1
  /\ UNCHANGED <<useFallbackStore, rateVars, svcVars, readVars, dlqVars, storeVars, nextJobId, pipeVars>>

(***************************************************************************)
(* Environment of the stores                                               *)
(***************************************************************************)
\* _syncCreditsToFirestore: a mirror write lands in the user document
SyncCreditsToFirestore ==
  /\ \E m \in syncPending :
       /\ userDocs' = [userDocs EXCEPT ![m.userId] = m.balance]
       /\ syncPending' = syncPending \ {m}
  /\ UNCHANGED <<freeUsage, creditsCache, ledger, call, callsMade, otherVars>>

\* a mirror write fails; the failure is logged and dropped
SyncCreditsFails ==
  /\ \E m \in syncPending : syncPending' = syncPending \ {m}
  /\ UNCHANGED <<freeUsage, creditsCache, userDocs, ledger, call, callsMade,
                 otherVars>>

\* the cached balance reaches its CACHE_TTL_SECONDS and is dropped
CreditsCacheExpires ==
  /\ \E u \in DOMAIN creditsCache :
       /\ creditsCache[u].ttl
       /\ creditsCache' = [k \in (DOMAIN creditsCache) \ {u} |-> creditsCache[k]]
  /\ UNCHANGED <<freeUsage, userDocs, ledger, syncPending, call, callsMade,
                 otherVars>>

(***************************************************************************)
(* Idempotency middleware (middleware/idempotency.js)                      *)
(***************************************************************************)
\* req.body as the middleware sees it: express.json has parsed a JSON body,
\* a multipart body is not parsed before the upload handler runs
BodyAtMiddleware(payload) ==
  IF payload.kind = "json" THEN [nonEmpty |-> TRUE, text |-> payload.content]
                           ELSE [nonEmpty |-> FALSE, text |-> 0]

\* hashPayload: method, url, and the body only when it has keys
hashPayload(method, url, body) ==
  [method |-> method, url |-> url,
   body |-> IF body.nonEmpty THEN body.text ELSE 0]

UndefinedHash == [method |-> "undefined", url |-> "undefined", body |-> 0]

\* the entry object the finish handler hands to backingStore.set
IdempotencyEntry(hash, response) ==
  [tag |-> "object", payloadHash |-> hash, response |-> response]

\* String(value) of createInMemoryStore.set: a plain object loses its fields
StoredValue(value) ==
  IF value.tag = "string" THEN value
  ELSE [tag |-> "string", payloadHash |-> UndefinedHash,
        response |-> [status |-> 0, jobId |-> 0, replayed |-> FALSE]]

\* cached.payloadHash: a property read, undefined on a string
CachedPayloadHash(cached) ==
  IF cached.tag = "object" THEN cached.payloadHash ELSE UndefinedHash

NoResponse == [status |-> 0, jobId |-> 0, replayed |-> FALSE]
Response(status, jobId) == [status |-> status, jobId |-> jobId, replayed |-> FALSE]

IdleReq == [pc |-> "idle", userId |-> 0, key |-> 0,
            payload |-> [kind |-> "none", content |-> 0],
            payloadHash |-> UndefinedHash, jobId |-> 0, creditsReserved |-> 0,
            creditType |-> "none", failure |-> "none", hit |-> "none",
            moderation |-> "none", response |-> NoResponse, after |-> {}]

NoRecord == [status |-> "absent", userId |-> 0, error |-> FALSE,
             resultObjectName |-> FALSE, attemptsMade |-> 0,
             credit |-> [amount |-> 0, type |-> "none"]]
NoTask == [state |-> "none", pc |-> "idle", attemptsMade |-> 0, userId |-> 0,
           creditsSpent |-> 0, deliveries |-> 0, queue |-> "none"]

credVars == <<freeUsage, creditsCache, userDocs, ledger, syncPending,
              call, callsMade>>

\* requests whose response has been sent and whose finish handler has run
Completed == {r \in Requests : req[r].pc = "done"}

\* requests that have arrived, and what they carried
Arrived == {r \in Requests : req[r].pc # "idle"}
SeenUsers == {req[q].userId : q \in Arrived}
SeenKeys == {req[q].key : q \in Arrived}
SeenContents(kind) ==
  {req[q].payload.content : q \in {x \in Arrived : req[x].payload.kind = kind}}

\* Request r is POST /jobs of user u with Idempotency-Key `key` and payload
\* p, and idempotencyHandler runs up to next(): backingStore.get(key) and
\* the hit branches.  `after` records the requests completed before this
\* one was sent.
Receive(r, u, key, p) ==
  /\ req[r].pc = "idle"
  /\ \A q \in Requests : q[2] < r[2] => req[q].pc # "idle"
  /\ LET payloadHash == hashPayload("POST", "/v1/jobs", BodyAtMiddleware(p))
         sent == [IdleReq EXCEPT !.userId = u, !.key = key, !.payload = p,
                                 !.payloadHash = payloadHash,
                                 !.after = Completed]
     IN  IF key \in DOMAIN idemStore
           THEN LET cached == idemStore[key]
                IN  IF CachedPayloadHash(cached) # payloadHash
                      THEN req' = [req EXCEPT ![r] =
                             [sent EXCEPT !.pc = "done", !.hit = "conflict",
                                          !.response = Response(409, 0)]]
                      ELSE req' = [req EXCEPT ![r] =
                             [sent EXCEPT !.pc = "done", !.hit = "replay",
                                !.response = [cached.response
                                                EXCEPT !.replayed = TRUE]]]
           ELSE req' = [req EXCEPT ![r] =
                          [sent EXCEPT !.pc = "admit", !.hit = "miss"]]
  /\ UNCHANGED <<useFallbackStore, rateVars, svcVars, readVars, dlqVars, credVars, nextJobId, idemStore,
                 restorations, task>>

\* A client sends POST /jobs.  Slots are taken in order; users, keys, bodies
\* and images are interchangeable, so a value not seen before is the next
\* one unused.
idempotencyHandler(r) ==
  \E u \in Users, key \in Keys, p \in Payloads :
    /\ u <= Cardinality(SeenUsers) + 1
    /\ key <= Cardinality(SeenKeys) + 1
    /\ p.content <= Cardinality(SeenContents(p.kind)) + 1
    /\ Receive(r, u, key, p)

\* One client: user 1 sends its image or its blob reference, always under
\* the same Idempotency-Key.
ClientSubmits(r) ==
  \E p \in Payloads : p.content = 1 /\ Receive(r, 1, 1, p)

\* the finish handler: backingStore.set(key, entry, ttl) for a status in
\* [200, 499].  The generic set of the store is used: the in-process store
\* keeps String(value); the redis client is handed an object where it takes
\* a string, and either rejects the command or writes the coerced text.
IdempotencyFinish(r) ==
  /\ req[r].pc = "finish"
  /\ LET st == req[r].response.status
         entry == IdempotencyEntry(req[r].payloadHash, req[r].response)
         written == Put(idemStore, req[r].key, StoredValue(entry))
     IN  IF st >= 200 /\ st < 500
           THEN IF useFallbackStore
                  THEN idemStore' = written
                  ELSE idemStore' \in {idemStore, written}
           ELSE UNCHANGED idemStore
  /\ req' = [req EXCEPT ![r].pc = "done"]
  /\ UNCHANGED <<useFallbackStore, rateVars, svcVars, readVars, dlqVars, credVars, nextJobId, restorations, task>>

(***************************************************************************)
(* POST /jobs (routes/jobs.js, createJobsRouter).  A call of the credits   *)
(* service made by the handler or by the worker runs to its return within  *)
(* the step that makes it; the interleavings inside the service are those  *)
(* of SpecCredits.                                                         *)
(***************************************************************************)
\* moderation that fails open: a failed moderation call lets the request on
AdmitAndModerateFailOpen(r) ==
  /\ req[r].pc = "admit"
  /\ \E verdict \in {"allowed", "rejected", "failed"} :
       req' = [req EXCEPT ![r] =
         IF verdict \in {"allowed", "failed"}
           THEN [@ EXCEPT !.pc = "deduct", !.moderation = verdict]
           ELSE [@ EXCEPT !.pc = "finish", !.moderation = verdict,
                   !.response = Response(422, 0)]]
  /\ UNCHANGED <<useFallbackStore, rateVars, svcVars, readVars, dlqVars, credVars, nextJobId, idemStore,
                 restorations, task>>

\* upload or download, preprocessing and moderation (moderateImage for an
\* upload, moderateBuffer for a blob reference): allowed, rejected with 422,
\* or the moderation call fails and the request ends with 500
AdmitAndModerate(r) ==
  /\ req[r].pc = "admit"
  /\ \E verdict \in {"allowed", "rejected", "failed"} :
       req' = [req EXCEPT ![r] =
         IF verdict = "allowed"
           THEN [@ EXCEPT !.pc = "deduct", !.moderation = verdict]
           ELSE [@ EXCEPT !.pc = "finish", !.moderation = verdict,
                   !.response = Response(IF verdict = "rejected" THEN 422
                                                                 ELSE 500, 0)]]
  /\ UNCHANGED <<useFallbackStore, rateVars, svcVars, readVars, dlqVars, credVars, nextJobId, idemStore,
                 restorations, task>>

\* jobId = randomUUID(), credits.checkAndDeduct and the 402 of a denial; a
\* throw of the service reaches the catch block with nothing reserved
Deduct(r) ==
  /\ req[r].pc = "deduct"
  /\ \E o \in checkAndDeduct(Store, req[r].userId, DEFAULT_CREDIT_COST,
                             nextJobId, useFallbackStore) :
       /\ StoreBecomes(o.S)
       /\ req' = [req EXCEPT ![r] =
            IF o.f.result.kind = "allowed"
              THEN [@ EXCEPT !.pc = "create_record", !.jobId = nextJobId,
                             !.creditsReserved = DEFAULT_CREDIT_COST,
                             !.creditType = o.f.result.type]
              ELSE [@ EXCEPT !.pc = "finish", !.jobId = nextJobId,
                             !.response = Response(IF o.f.result.kind = "denied"
                                                     THEN 402 ELSE 500, 0)]]
  /\ nextJobId' = nextJobId + 1
  /\ UNCHANGED <<useFallbackStore, rateVars, svcVars, readVars, dlqVars, call, callsMade, idemStore, restorations,
                 task>>

\* firestore restorations/<jobId>.set({status: 'queued', ...}); may throw
CreateJobRecord(r) ==
  /\ req[r].pc = "create_record"
  /\ \/ /\ restorations' = [restorations EXCEPT ![req[r].jobId] =
             [NoRecord EXCEPT !.status = "queued", !.userId = req[r].userId,
                              !.credit = [amount |-> req[r].creditsReserved,
                                          type |-> req[r].creditType]]]
        /\ req' = [req EXCEPT ![r].pc = "enqueue"]
     \/ /\ req' = [req EXCEPT ![r].pc = "catch", ![r].failure = "record"]
        /\ UNCHANGED restorations
  /\ UNCHANGED <<useFallbackStore, rateVars, svcVars, readVars, dlqVars, credVars, nextJobId, idemStore, task>>

\* queue.add('restoration', {...}, {jobId}) and, when it resolves, the 202
EnqueueAndRespond(r) ==
  /\ req[r].pc = "enqueue"
  /\ \/ /\ task' = [task EXCEPT ![req[r].jobId] =
             [NoTask EXCEPT !.state = "waiting", !.userId = req[r].userId,
                            !.queue = DEFAULT_QUEUE_NAME,
                            !.creditsSpent = req[r].creditsReserved]]
        /\ req' = [req EXCEPT ![r].pc = "finish",
                     ![r].response = Response(202, req[r].jobId)]
     \/ /\ req' = [req EXCEPT ![r].pc = "catch", ![r].failure = "enqueue"]
        /\ UNCHANGED task
  /\ UNCHANGED <<useFallbackStore, rateVars, svcVars, readVars, dlqVars, credVars, nextJobId, idemStore,
                 restorations>>

\* the catch block: creditsReserved > 0 && jobId, so credits.refund; then
\* next(error), which ends in the 500 of errorHandler
CatchRefund(r) ==
  /\ req[r].pc = "catch"
  /\ \E o \in refund(Store, req[r].userId, req[r].jobId,
                     req[r].creditsReserved, useFallbackStore) :
       StoreBecomes(o.S)
  /\ req' = [req EXCEPT ![r].pc = "finish", ![r].response = Response(500, 0)]
  /\ UNCHANGED <<useFallbackStore, rateVars, svcVars, readVars, dlqVars, call, callsMade, nextJobId, idemStore,
                 restorations, task>>

(***************************************************************************)
(* Restoration worker (queues/workers/restorationWorker.js, processJob)    *)
(***************************************************************************)
ActiveTasks == {j \in Jobs : task[j].state = "active"}

\* merge write of restorations/<jobId>
MergeRecord(rec, fields) ==
  [f \in DOMAIN rec |-> IF f \in DOMAIN fields THEN fields[f] ELSE rec[f]]

\* the queue hands a waiting task to the worker
WorkerTake(j) ==
  /\ task[j].state = "waiting"
  /\ task[j].queue = QUEUE_NAME
  /\ Cardinality(ActiveTasks) < CONCURRENCY
  /\ task' = [task EXCEPT ![j].state = "active", ![j].pc = "mark_running",
                           ![j].deliveries = @ + 1]
  /\ UNCHANGED <<useFallbackStore, rateVars, svcVars, readVars, dlqVars, credVars, nextJobId, req, idemStore,
                 restorations>>

\* a worker that debits the job again before it runs it
MarkRunningDebits(j) ==
  /\ task[j].pc = "mark_running"
  /\ restorations' = [restorations EXCEPT ![j] =
        MergeRecord(@, [status |-> "running", userId |-> task[j].userId,
                        attemptsMade |-> task[j].attemptsMade])]
  /\ task' = [task EXCEPT ![j].pc = "restore"]
  /\ \E o \in checkAndDeduct(Store, task[j].userId, DEFAULT_CREDIT_COST, j,
                              useFallbackStore) : StoreBecomes(o.S)
  /\ UNCHANGED <<useFallbackStore, rateVars, svcVars, readVars, dlqVars, call, callsMade,
                 nextJobId, req, idemStore>>

\* set({status: 'running', attemptsMade, ...}, {merge: true})
MarkRunning(j) ==
  /\ task[j].pc = "mark_running"
  /\ restorations' = [restorations EXCEPT ![j] =
        MergeRecord(@, [status |-> "running", userId |-> task[j].userId,
                        attemptsMade |-> task[j].attemptsMade])]
  /\ task' = [task EXCEPT ![j].pc = "restore"]
  /\ UNCHANGED <<useFallbackStore, rateVars, svcVars, readVars, dlqVars, credVars, nextJobId, req, idemStore>>

\* services.restorator.restore: success, or success=false and the throw
Restore(j) ==
  /\ task[j].pc = "restore"
  /\ \E ok \in BOOLEAN :
       task' = [task EXCEPT ![j].pc = IF ok THEN "mark_succeeded"
                                            ELSE "mark_failed"]
  /\ UNCHANGED <<useFallbackStore, rateVars, svcVars, readVars, dlqVars, credVars, nextJobId, req, idemStore,
                 restorations>>

\* set({status: 'succeeded', timings, ...}, {merge: true}); the task completes
MarkSucceeded(j) ==
  /\ task[j].pc = "mark_succeeded"
  /\ restorations' = [restorations EXCEPT ![j] =
        MergeRecord(@, [status |-> "succeeded", userId |-> task[j].userId])]
  /\ task' = [task EXCEPT ![j].state = "completed", ![j].pc = "idle"]
  /\ UNCHANGED <<useFallbackStore, rateVars, svcVars, readVars, dlqVars, credVars, nextJobId, req, idemStore>>

\* the catch block: set({status: 'failed', error, ...}, {merge: true})
MarkFailed(j) ==
  /\ task[j].pc = "mark_failed"
  /\ restorations' = [restorations EXCEPT ![j] =
        MergeRecord(@, [status |-> "failed", error |-> TRUE,
                        attemptsMade |-> task[j].attemptsMade])]
  /\ task' = [task EXCEPT ![j].pc = "refund"]
  /\ UNCHANGED <<useFallbackStore, rateVars, svcVars, readVars, dlqVars, credVars, nextJobId, req, idemStore>>

\* a task that keeps being retried whatever its attempts option
AfterFailedAttemptUnbounded(made) == "waiting"

\* defaultJobOptions.attempts: the engine retries a failed task while it has
\* made fewer than MAX_ATTEMPTS attempts, and fails it for good otherwise
AfterFailedAttempt(made) == IF made < MAX_ATTEMPTS THEN "waiting" ELSE "failed"

\* the catch block: credits.refund as creditsSpent > 0, then `throw error`;
\* the queue engine retries the task while attempts remain
RefundAndRethrow(j) ==
  /\ task[j].pc = "refund"
  /\ IF task[j].creditsSpent > 0
       THEN \E o \in refund(Store, task[j].userId, j, task[j].creditsSpent,
                            useFallbackStore) : StoreBecomes(o.S)
       ELSE UNCHANGED storeVars
  /\ LET made == task[j].attemptsMade + 1
     IN  task' = [task EXCEPT ![j].attemptsMade = made, ![j].pc = "idle",
                    ![j].state = AfterFailedAttempt(made)]
  /\ UNCHANGED <<useFallbackStore, rateVars, svcVars, readVars, dlqVars, call, callsMade, nextJobId, req, idemStore,
                 restorations>>

(***************************************************************************)
(* Rate limiter store (clients/redisClient.js, take)                       *)
(***************************************************************************)
RateKeys == {"user:1", "ip:1"}

NoTake == [allowed |-> FALSE, remaining |-> 0, reset |-> 0, created |-> FALSE]
IdleTaker == [pc |-> "idle", key |-> "none", now |-> 0, result |-> NoTake]

\* tokenBucketScript: the reply {allowed, remaining, reset} and the hash
\* afterwards; `at` is the instant the script runs (PEXPIRE counts from it)
tokenBucketScript(store, key, limit, intervalMs, nowArg, at) ==
  IF key \notin DOMAIN store \/ store[key].reset <= nowArg
    THEN [allowed |-> TRUE, remaining |-> limit - 1, reset |-> nowArg + intervalMs,
          created |-> TRUE,
          store |-> Put(store, key, [remaining |-> limit - 1,
                                     reset |-> nowArg + intervalMs,
                                     pexpire |-> at + intervalMs])]
    ELSE IF store[key].remaining <= 0
      THEN [allowed |-> FALSE, remaining |-> 0, reset |-> store[key].reset,
            created |-> FALSE, store |-> store]
      ELSE [allowed |-> TRUE, remaining |-> store[key].remaining - 1,
            reset |-> store[key].reset, created |-> FALSE,
            store |-> Put(store, key, [store[key] EXCEPT !.remaining = @ - 1])]

\* createInMemoryStore.take: no await inside, so it runs in one piece
fallbackTake(store, key, limit, windowMs, at) ==
  IF key \notin DOMAIN store \/ store[key].expiresAt <= at
    THEN [allowed |-> TRUE, remaining |-> limit - 1, reset |-> at + windowMs,
          created |-> TRUE,
          store |-> Put(store, key, [remaining |-> limit - 1,
                                     expiresAt |-> at + windowMs])]
    ELSE IF store[key].remaining <= 0
      THEN [allowed |-> FALSE, remaining |-> 0, reset |-> store[key].expiresAt,
            created |-> FALSE, store |-> store]
      ELSE [allowed |-> TRUE, remaining |-> store[key].remaining - 1,
            reset |-> store[key].expiresAt, created |-> FALSE,
            store |-> Put(store, key, [store[key] EXCEPT !.remaining = @ - 1])]

Reply(r) == [allowed |-> r.allowed, remaining |-> r.remaining,
             reset |-> r.reset, created |-> r.created]

\* bookkeeping of the windows of a key: an admitted take counts for every
\* window of the key whose reset instant is still ahead, and a take that
\* created a window opens its count
Counted(ws, key, r) ==
  LET counted == IF r.allowed
                   THEN {IF w.key = key /\ now < w.reset
                           THEN [w EXCEPT !.admitted = @ + 1] ELSE w : w \in ws}
                   ELSE ws
  IN  IF r.created
        THEN counted \cup {[key |-> key, reset |-> r.reset, admitted |-> 1]}
        ELSE counted

pipeAndCredVars == <<freeUsage, creditsCache, userDocs, ledger, syncPending,
                     call, nextJobId, callsMade, req, idemStore, restorations,
                     task, dlq, jobsDocs, replay, mainQueueAdds, reads, svcVars>>

\* store.take on the in-process store (the shared store was given up)
TakeFallback(c) ==
  /\ taker[c].pc = "idle"
  /\ takesMade < MaxTakes
  /\ useFallbackStore
  /\ \E key \in RateKeys :
       LET r == fallbackTake(fallbackBuckets, key, RateLimit, RateInterval, now)
       IN  /\ fallbackBuckets' = r.store
           /\ taker' = [taker EXCEPT ![c] = [IdleTaker EXCEPT !.key = key,
                                               !.now = now, !.result = Reply(r)]]
           /\ windows' = Counted(windows, key, r)
  /\ takesMade' = takesMade + 1
  /\ UNCHANGED <<useFallbackStore, now, buckets, limiter, lockstep,
                 pipeAndCredVars>>

\* store.take on redis: now = Date.now(), then the await of client.eval
TakeStart(c) ==
  /\ taker[c].pc = "idle"
  /\ takesMade < MaxTakes
  /\ ~useFallbackStore
  /\ \E key \in RateKeys :
       taker' = [taker EXCEPT ![c] = [IdleTaker EXCEPT !.pc = "eval",
                                        !.key = key, !.now = now]]
  /\ takesMade' = takesMade + 1
  /\ UNCHANGED <<useFallbackStore, now, buckets, fallbackBuckets, windows,
                 limiter, lockstep,
                 pipeAndCredVars>>

\* the script runs in the store with the `now` the caller sent
TakeEval(c) ==
  /\ taker[c].pc = "eval"
  /\ LET r == tokenBucketScript(buckets, taker[c].key, RateLimit, RateInterval,
                                taker[c].now, now)
     IN  /\ buckets' = r.store
         /\ taker' = [taker EXCEPT ![c].pc = "idle", ![c].result = Reply(r)]
         /\ windows' = Counted(windows, taker[c].key, r)
  /\ UNCHANGED <<useFallbackStore, now, fallbackBuckets, takesMade,
                 limiter, lockstep,
                 pipeAndCredVars>>

\* client.eval rejects: the catch block gives the shared store up for good
\* and answers from the in-process store
TakeEvalFails(c) ==
  /\ taker[c].pc = "eval"
  /\ useFallbackStore' = TRUE
  /\ LET r == fallbackTake(fallbackBuckets, taker[c].key, RateLimit,
                           RateInterval, now)
     IN  /\ fallbackBuckets' = r.store
         /\ taker' = [taker EXCEPT ![c].pc = "idle", ![c].result = Reply(r)]
         /\ windows' = Counted(windows, taker[c].key, r)
  /\ UNCHANGED <<now, buckets, takesMade, limiter, lockstep,
                 pipeAndCredVars>>

(***************************************************************************)
(* The bucket stores side by side: the shared-store script and the two     *)
(* in-process stores (createInMemoryStore.take in clients/redisClient.js,  *)
(* InMemoryTokenBucketStore in middleware/rateLimit.js)                    *)
(***************************************************************************)
\* InMemoryTokenBucketStore._getBucket: the bucket of the key, a full one
\* when there is none or the one there has expired
getBucket(store, key, at, windowMs, limit) ==
  IF key \notin DOMAIN store \/ store[key].expiresAt <= at
    THEN [remaining |-> limit, expiresAt |-> at + windowMs]
    ELSE store[key]

\* InMemoryTokenBucketStore.take
memoryTake(store, key, limit, windowMs, at) ==
  LET bucket == getBucket(store, key, at, windowMs, limit)
  IN  IF bucket.remaining <= 0
        THEN [allowed |-> FALSE, remaining |-> 0, reset |-> bucket.expiresAt,
              store |-> Put(store, key, bucket)]
        ELSE [allowed |-> TRUE, remaining |-> bucket.remaining - 1,
              reset |-> bucket.expiresAt,
              store |-> Put(store, key,
                            [bucket EXCEPT !.remaining = @ - 1])]

\* the {allowed, remaining, reset} a take returns
TakeResult(r) ==
  [allowed |-> r.allowed, remaining |-> r.remaining, reset |-> r.reset]

NoAnswer == [allowed |-> FALSE, remaining |-> 0, reset |-> 0]

\* memoryBuckets: the buckets map of InMemoryTokenBucketStore; limit: the
\* limit of the last call; script, fallback, memory: what each store
\* answered to it
NoLockstep == [memoryBuckets |-> <<>>, limit |-> 0, script |-> NoAnswer,
               fallback |-> NoAnswer, memory |-> NoAnswer]

\* one take({key, limit, intervalSeconds}) at the present instant, given to
\* each of the three stores
TakeEverywhere(key, limit, interval) ==
  /\ takesMade < MaxTakes
  /\ takesMade' = takesMade + 1
  /\ LET s == tokenBucketScript(buckets, key, limit, interval, now, now)
         f == fallbackTake(fallbackBuckets, key, limit, interval, now)
         m == memoryTake(lockstep.memoryBuckets, key, limit, interval, now)
     IN  /\ buckets' = s.store
         /\ fallbackBuckets' = f.store
         /\ lockstep' = [memoryBuckets |-> m.store, limit |-> limit,
                         script |-> TakeResult(s), fallback |-> TakeResult(f),
                         memory |-> TakeResult(m)]
  /\ UNCHANGED <<useFallbackStore, now, taker, windows, limiter,
                 pipeAndCredVars>>

(***************************************************************************)
(* Rate limiter middleware (middleware/rateLimit.js, expressRateLimit)     *)
(***************************************************************************)
NoHeaders == [limit |-> 0, remaining |-> 0, reset |-> 0, status |-> "none"]

\* pc: where the request under way stands; headerValues: the tuple kept by
\* the loop; sent: the RateLimit-* headers of the last response; served: the
\* responses sent; windowReset: a window was reset since the request of the
\* last response arrived; resetNow: the same for the request under way
IdleLimiter == [pc |-> "idle", taken |-> {}, headerValues |-> NoHeaders, sent |-> NoHeaders,
                served |-> 0, windowReset |-> FALSE, resetNow |-> FALSE]

LimiterCaller == CHOOSE c \in Callers : TRUE

\* configs: the user bucket first, then the address bucket
ConfigKey(pc) == IF pc \in {"user", "user_take"} THEN "user:1" ELSE "ip:1"

Max(a, b) == IF a >= b THEN a ELSE b

\* toHeaderTuple: the seconds left to the reset and the remaining tokens,
\* neither below zero
toHeaderTuple(limit, remaining, reset) ==
  [limit |-> limit, remaining |-> Max(0, remaining),
   reset |-> Max(0, reset - now), status |-> "none"]

\* a request of user 1 from address 1 enters the middleware; the client
\* sends its next request after the response to the one before
LimiterArrives ==
  /\ limiter.pc = "idle"
  /\ limiter.served < MaxHits
  /\ limiter' = [limiter EXCEPT !.pc = "user", !.headerValues = NoHeaders,
                                !.resetNow = FALSE, !.taken = {}]
  /\ UNCHANGED <<useFallbackStore, now, buckets, fallbackBuckets, taker,
                 windows, takesMade, lockstep,
                 pipeAndCredVars>>

\* result = await bucketStore.take(config): on the in-process store the
\* take runs in one piece, on redis it awaits client.eval
LimiterTake ==
  /\ limiter.pc \in {"user", "ip"}
  /\ taker[LimiterCaller].pc = "idle"
  /\ LET key == ConfigKey(limiter.pc)
         r == fallbackTake(fallbackBuckets, key, RateLimit, RateInterval, now)
     IN  IF useFallbackStore
           THEN /\ fallbackBuckets' = r.store
                /\ taker' = [taker EXCEPT ![LimiterCaller] =
                               [IdleTaker EXCEPT !.key = key, !.now = now,
                                                 !.result = Reply(r)]]
                /\ windows' = Counted(windows, key, r)
           ELSE /\ taker' = [taker EXCEPT ![LimiterCaller] =
                               [IdleTaker EXCEPT !.pc = "eval", !.key = key,
                                                 !.now = now]]
                /\ UNCHANGED <<fallbackBuckets, windows>>
  /\ limiter' = [limiter EXCEPT !.pc = IF @ = "user" THEN "user_take"
                                                      ELSE "ip_take"]
  /\ UNCHANGED <<useFallbackStore, now, buckets, takesMade, lockstep,
                 pipeAndCredVars>>

\* the body of the loop after the take: keep the tuple with the fewest
\* remaining tokens; a refused take answers 429 with its own tuple, the last
\* admitted take sets the kept tuple and calls next().  `taken` notes the
\* buckets whose take the store admitted for this request (a token each)
LimiterHeaders ==
  /\ limiter.pc \in {"user_take", "ip_take"}
  /\ taker[LimiterCaller].pc = "idle"
  /\ LET result == taker[LimiterCaller].result
         headers == toHeaderTuple(RateLimit, result.remaining, result.reset)
         kept == IF limiter.headerValues = NoHeaders
                      \/ headers.remaining < limiter.headerValues.remaining
                   THEN headers ELSE limiter.headerValues
     IN  limiter' =
           IF ~result.allowed
             THEN [limiter EXCEPT !.pc = "idle", !.headerValues = kept,
                     !.sent = [headers EXCEPT !.status = "429"],
                     !.served = @ + 1, !.windowReset = limiter.resetNow]
             ELSE IF limiter.pc = "user_take"
               THEN [limiter EXCEPT !.pc = "ip", !.headerValues = kept,
                       !.taken = @ \cup {ConfigKey(limiter.pc)}]
               ELSE [limiter EXCEPT !.pc = "idle", !.headerValues = kept,
                       !.taken = @ \cup {ConfigKey(limiter.pc)},
                       !.sent = [kept EXCEPT !.status = "next"],
                       !.served = @ + 1, !.windowReset = limiter.resetNow]
  /\ UNCHANGED <<useFallbackStore, now, buckets, fallbackBuckets, taker,
                 windows, takesMade, lockstep,
                 pipeAndCredVars>>

\* a tick of the clock: redis drops the hashes whose PEXPIRE is due, and the
\* windows whose reset instant has come are closed
Tick ==
  /\ now < MaxTime
  /\ now' = now + 1
  /\ buckets' = [k \in {x \in DOMAIN buckets : buckets[x].pexpire > now + 1}
                   |-> buckets[k]]
  /\ windows' = {w \in windows : w.reset > now + 1}
  /\ limiter' = [limiter EXCEPT !.windowReset = @ \/ windows' # windows,
                                !.resetNow = @ \/ windows' # windows]
  /\ UNCHANGED <<useFallbackStore, fallbackBuckets, taker, takesMade,
                 lockstep,
                 pipeAndCredVars>>

InitRate ==
  /\ now = 0
  /\ buckets = <<>>
  /\ fallbackBuckets = <<>>
  /\ taker = [c \in Callers |-> IdleTaker]
  /\ windows = {}
  /\ takesMade = 0
  /\ limiter = IdleLimiter
  /\ lockstep = NoLockstep

(***************************************************************************)
(* Job reads (GET /jobs/:id and GET /jobs/:id/stream)                      *)
(***************************************************************************)
\* createProblem of the `!doc.exists` branch
JobNotFound ==
  [status |-> 404, type |-> "problem/job-not-found", title |-> "Job Not Found",
   detail |-> "No job with the provided identifier exists."]

\* a handler that tells the asker the job is somebody else's
ForeignJobForbidden ==
  [status |-> 403, type |-> "problem/forbidden", title |-> "Forbidden",
   detail |-> "The job belongs to another user."]

\* createProblem of the `data.userId && data.userId !== req.user.id` branch
ForeignJob ==
  [status |-> 404, type |-> "problem/job-not-found", title |-> "Job Not Found",
   detail |-> "No job with the provided identifier exists."]

\* buildJobResponse: the projection of the record; `result` is attached for
\* a succeeded record that names its result object
buildJobResponse(j, data) ==
  [status |-> 200, jobId |-> j, jobStatus |-> data.status,
   error |-> data.error, credit |-> data.credit,
   result |-> (data.status = "succeeded" /\ data.resultObjectName)]

\* the lookup both routes start with: 404 for a missing record, 404 for a
\* record of another user, the record otherwise
Lookup(u, j) ==
  IF restorations[j].status = "absent" THEN JobNotFound
  ELSE IF restorations[j].userId # 0 /\ restorations[j].userId # u
    THEN ForeignJob
    ELSE buildJobResponse(j, restorations[j])

NoGot == [user |-> 0, job |-> 0, route |-> "none", response |-> JobNotFound]
NoStream == [pc |-> "none", user |-> 0, job |-> 0, seen |-> NoRecord,
             subscribed |-> FALSE, last |-> JobNotFound, events |-> 0,
             heartbeat |-> FALSE, wrote |-> "none", lateWrite |-> FALSE]

\* GET /jobs/:id
GetJob(u, j) ==
  /\ reads' = [reads EXCEPT !.got = [user |-> u, job |-> j, route |-> "job",
                                      response |-> Lookup(u, j)]]
  /\ UNCHANGED <<useFallbackStore, rateVars, svcVars, dlqVars, credVars, nextJobId,
                 pipeVars>>

\* GET /jobs/:id/stream: the 404 of the lookup, or the 200 event stream with
\* the first status event (sendUpdate(snapshot)) and the listener installed
StreamOpen(u, j) ==
  /\ reads.stream.pc = "none"
  /\ reads' =
       IF Lookup(u, j).status = 404
         THEN [reads EXCEPT !.got = [user |-> u, job |-> j, route |-> "stream",
                                     response |-> Lookup(u, j)]]
         ELSE [reads EXCEPT !.stream =
                 [pc |-> "open", user |-> u, job |-> j, seen |-> NoRecord,
                  subscribed |-> TRUE, last |-> Lookup(u, j), events |-> 1,
                  heartbeat |-> TRUE, wrote |-> "status",
                  lateWrite |-> FALSE]]
  /\ UNCHANGED <<useFallbackStore, rateVars, svcVars, dlqVars, credVars, nextJobId,
                 pipeVars>>

\* the onSnapshot callback: the listener is handed the record it has not
\* delivered yet and sendUpdate writes one status event
StreamSnapshot ==
  /\ reads.stream.pc = "open"
  /\ reads.stream.subscribed
  /\ reads.stream.seen # restorations[reads.stream.job]
  /\ reads' = [reads EXCEPT
       !.stream.seen = restorations[reads.stream.job],
       !.stream.last = buildJobResponse(reads.stream.job,
                                        restorations[reads.stream.job]),
       !.stream.events = @ + 1,
       !.stream.wrote = "status"]
  /\ UNCHANGED <<useFallbackStore, rateVars, svcVars, dlqVars, credVars, nextJobId,
                 pipeVars>>

\* req 'close' / 'end': cleanup clears the heartbeat, unsubscribes and ends
\* the response
StreamPeerCloses ==
  /\ reads.stream.pc \in {"open", "ended"}
  /\ reads' = [reads EXCEPT !.stream.pc = "closed",
                            !.stream.subscribed = FALSE,
                            !.stream.heartbeat = FALSE]
  /\ UNCHANGED <<useFallbackStore, rateVars, svcVars, dlqVars, credVars, nextJobId,
                 pipeVars>>

\* the error callback of onSnapshot: one error event, then res.end(); the
\* listener delivers nothing after its error
StreamSubscriptionError ==
  /\ reads.stream.pc = "open"
  /\ reads.stream.subscribed
  /\ reads' = [reads EXCEPT !.stream.pc = "ended",
                            !.stream.wrote = "error"]
  /\ UNCHANGED <<useFallbackStore, rateVars, svcVars, dlqVars, credVars, nextJobId,
                 pipeVars>>

\* the setInterval callback: res.write(': heartbeat'), whatever the state
\* of the response; `lateWrite` notes a write made after res.end()
StreamHeartbeat ==
  /\ reads.stream.heartbeat
  /\ reads' = [reads EXCEPT !.stream.wrote = "heartbeat",
                            !.stream.lateWrite = @ \/ reads.stream.pc # "open"]
  /\ UNCHANGED <<useFallbackStore, rateVars, svcVars, dlqVars, credVars, nextJobId,
                 pipeVars>>

InitReads == reads = [got |-> NoGot, stream |-> NoStream]

(***************************************************************************)
(* Restoration service (services/restorator.js, services/promptEnhancer.js,*)
(* utils/retry.js, clients/geminiClient.js)                                *)
(***************************************************************************)
Kinds == 1..NumKinds

\* confidence scores in tenths: 0.0, 0.3, 0.4, 0.5, 0.7
Scores == {0, 3, 4, 5, 7}

\* userPrompt: undefined, whitespace only, a short text, a text of a
\* thousand characters
UserPrompts == {"none", "blank", "short", "long"}

ErrorCodes == {"none", "ETIMEDOUT"}

\* an Error thrown by a stage: its message names the stage and the call
Err(stage, n, code) == [message |-> <<stage, n>>, code |-> code]
NoErr == Err("none", 0, "none")

\* _determineSeverity
determineSeverity(confidence) ==
  IF confidence >= 7 THEN "high"
  ELSE IF confidence >= 5 THEN "medium" ELSE "low"

\* sort by confidence, highest first, and slice(0, 3)
TopThree(issues) ==
  IF Cardinality(issues) <= 3 THEN issues
  ELSE CHOOSE T \in SUBSET issues :
         /\ Cardinality(T) = 3
         /\ \A i \in T, o \in issues \ T : i.confidence >= o.confidence

\* _identifyTopIssues: the kinds whose confidence is above the threshold 0.3
identifyTopIssues(degradation) ==
  TopThree({[type |-> k, confidence |-> degradation[k],
             severity |-> determineSeverity(degradation[k])] :
              k \in {x \in DOMAIN degradation : degradation[x] > 3}})

\* _buildPrompt: the sentences of the prompt; a prompt over 1000 characters
\* is cut at 950, which a long user request alone fills
buildPrompt(userPrompt, issues) ==
  LET user == IF userPrompt \in {"short", "long"} THEN {"user request"} ELSE {}
      technical == IF issues # {} THEN {"technical restoration"} ELSE {}
      guidance == IF \E i \in issues : i.severity = "high"
                    THEN {"significant restoration work"}
                    ELSE IF issues = {} THEN {"subtle enhancements only"}
                                        ELSE {}
      parts == user \cup technical \cup {"quality guidelines"} \cup guidance
  IN  IF userPrompt = "long"
        THEN [parts |-> {"user request"}, truncated |-> TRUE]
        ELSE [parts |-> parts, truncated |-> FALSE]

NoPrompt == [parts |-> {}, truncated |-> FALSE]
NoOutcome == [success |-> FALSE, thrown |-> FALSE, error |-> NoErr]

\* one call of RestoratorService.restore.  attempts, attempt, calls,
\* lastError, returned: exponentialBackoff's option, its loop counter, the
\* calls of fn made, the error of the last failed call, the call whose
\* result was returned
IdleRestorator ==
  [pc |-> "idle", userPrompt |-> "none",
   degradation |-> [k \in Kinds |-> 0], prompt |-> NoPrompt,
   attempts |-> 0, attempt |-> 0, calls |-> 0, lastError |-> NoErr,
   returned |-> 0, failed |-> "none", error |-> NoErr, result |-> NoOutcome]

\* restore({imageBuffer, userPrompt, ...}) is called
RestoreStart ==
  /\ restorator.pc = "idle"
  /\ \E up \in UserPrompts :
       restorator' = [restorator EXCEPT !.pc = "classify", !.userPrompt = up]
  /\ UNCHANGED <<useFallbackStore, rateVars, readVars, dlqVars, credVars,
                 nextJobId, pipeVars, queueDelay>>

\* step 1, classifier.analyze: the scores, or the error it rethrows
Classify ==
  /\ restorator.pc = "classify"
  /\ \/ \E d \in [Kinds -> Scores] :
          restorator' = [restorator EXCEPT !.pc = "enhance", !.degradation = d]
     \/ \E code \in ErrorCodes :
          restorator' = [restorator EXCEPT !.pc = "catch",
                           !.failed = "classifier",
                           !.error = Err("classifier", 1, code)]
  /\ UNCHANGED <<useFallbackStore, rateVars, readVars, dlqVars, credVars,
                 nextJobId, pipeVars, queueDelay>>

\* step 2, promptEnhancer.enhance: the prompt, or the error it rethrows;
\* then geminiClient.restoreImage enters exponentialBackoff
Enhance ==
  /\ restorator.pc = "enhance"
  /\ \/ restorator' = [restorator EXCEPT !.pc = "provider",
          !.prompt = buildPrompt(restorator.userPrompt,
                                 identifyTopIssues(restorator.degradation)),
          !.attempt = 1]
     \/ \E code \in ErrorCodes :
          restorator' = [restorator EXCEPT !.pc = "catch",
                           !.failed = "enhancer",
                           !.error = Err("enhancer", 1, code)]
  /\ UNCHANGED <<useFallbackStore, rateVars, readVars, dlqVars, credVars,
                 nextJobId, pipeVars, queueDelay>>

\* a retry loop that gives up one attempt early
AttemptsExhaustedEarly(attempt, attempts) == attempt >= attempts - 1

\* `if (attempt === attempts) break`
AttemptsExhausted(attempt, attempts) == attempt = attempts

\* exponentialBackoff, one turn of the loop: `return await fn()`, or the
\* catch that keeps the error and either leaves the loop (`throw
\* lastError`, which restoreImage rethrows) or goes to sleep
ProviderCall ==
  /\ restorator.pc = "provider"
  /\ restorator.attempt <= restorator.attempts
  /\ LET n == restorator.calls + 1
     IN  \/ restorator' = [restorator EXCEPT !.pc = "return", !.calls = n,
                             !.returned = n]
         \/ \E code \in ErrorCodes :
              restorator' =
                IF AttemptsExhausted(restorator.attempt, restorator.attempts)
                  THEN [restorator EXCEPT !.pc = "catch", !.calls = n,
                          !.lastError = Err("provider", n, code),
                          !.failed = "provider",
                          !.error = Err("provider", n, code)]
                  ELSE [restorator EXCEPT !.pc = "sleep", !.calls = n,
                          !.lastError = Err("provider", n, code)]
  /\ UNCHANGED <<useFallbackStore, rateVars, readVars, dlqVars, credVars,
                 nextJobId, pipeVars, queueDelay>>

\* onRetry, then the setTimeout of calculateDelay, then `attempt += 1`
ProviderSleep ==
  /\ restorator.pc = "sleep"
  /\ restorator' = [restorator EXCEPT !.pc = "provider", !.attempt = @ + 1]
  /\ UNCHANGED <<useFallbackStore, rateVars, readVars, dlqVars, credVars,
                 nextJobId, pipeVars, queueDelay>>

\* the end of the try block: `return result` with success: true
RestoreReturn ==
  /\ restorator.pc = "return"
  /\ restorator' = [restorator EXCEPT !.pc = "done",
                      !.result = [NoOutcome EXCEPT !.success = TRUE]]
  /\ UNCHANGED <<useFallbackStore, rateVars, readVars, dlqVars, credVars,
                 nextJobId, pipeVars, queueDelay>>

\* a catch block that passes the error on
RestoreCatchRethrows ==
  /\ restorator.pc = "catch"
  /\ restorator' = [restorator EXCEPT !.pc = "done",
                      !.result = [NoOutcome EXCEPT !.thrown = TRUE,
                                                   !.error = restorator.error]]
  /\ UNCHANGED <<useFallbackStore, rateVars, readVars, dlqVars, credVars,
                 nextJobId, pipeVars, queueDelay>>

\* the catch block: the structured result with success: false,
\* error.message and `error.code || 'RESTORATION_FAILED'`
RestoreCatch ==
  /\ restorator.pc = "catch"
  /\ restorator' = [restorator EXCEPT !.pc = "done",
       !.result = [NoOutcome EXCEPT
          !.error = [message |-> restorator.error.message,
                     code |-> IF restorator.error.code = "none"
                                THEN "RESTORATION_FAILED"
                                ELSE restorator.error.code]]]
  /\ UNCHANGED <<useFallbackStore, rateVars, readVars, dlqVars, credVars,
                 nextJobId, pipeVars, queueDelay>>

(***************************************************************************)
(* Retry delay of the queue (queues/jobQueue.js, calculateBackoff)         *)
(***************************************************************************)
\* JOBS_BACKOFF_JITTER in tenths: 0, the default 0.3, 1.0, 1.5
JitterTenths == {0, 3, 10, 15}

RECURSIVE Pow2(_)
Pow2(n) == IF n = 0 THEN 1 ELSE 2 * Pow2(n - 1)

\* BASE_DELAY_MS * Math.pow(2, Math.max(0, attemptsMade - 1))
baseDelay(base, attemptsMade) == base * Pow2(Max(0, attemptsMade - 1))

\* Math.random() is r / RandomSteps; the fractions below are over this
\* denominator
DelayDen == 10 * RandomSteps

\* min = baseDelay - jitter, max = baseDelay + jitter, times DelayDen
MinNum(base, jt, attemptsMade) ==
  baseDelay(base, attemptsMade) * (10 - jt) * RandomSteps
MaxNum(base, jt, attemptsMade) ==
  baseDelay(base, attemptsMade) * (10 + jt) * RandomSteps

\* Math.random() * (max - min) + min, times DelayDen
DelayNum(base, jt, attemptsMade, r) ==
  MinNum(base, jt, attemptsMade)
    + r * 2 * baseDelay(base, attemptsMade) * jt

\* Math.round of num / den for num >= 0: halves go up
Round(num, den) == (2 * num + den) \div (2 * den)

\* a delay that is rounded but not clamped
calculateBackoffUnclamped(base, jt, attemptsMade, r) ==
  LET num == DelayNum(base, jt, attemptsMade, r)
  IN  IF num >= 0 THEN Round(num, DelayDen)
                  ELSE 0 - Round(0 - num, DelayDen)

\* calculateBackoff: Math.round(Math.max(delay, 0))
calculateBackoff(base, jt, attemptsMade, r) ==
  Round(Max(DelayNum(base, jt, attemptsMade, r), 0), DelayDen)

\* base, jitter: the configuration read at start; attemptsMade, random,
\* delay: the last call of the backoff strategy and what it returned
NoDelay == [base |-> 0, jitter |-> 0, attemptsMade |-> 0, random |-> 0,
            delay |-> 0]

\* the queue engine asks the 'jittered-exponential' strategy for the delay
\* before the retry of a task that has made attemptsMade attempts
BackoffStrategy(attemptsMade, r) ==
  /\ queueDelay' = [queueDelay EXCEPT !.attemptsMade = attemptsMade,
                      !.random = r,
                      !.delay = calculateBackoff(queueDelay.base,
                                  queueDelay.jitter, attemptsMade, r)]
  /\ UNCHANGED <<useFallbackStore, rateVars, readVars, dlqVars, credVars,
                 nextJobId, pipeVars, restorator>>

InitServices ==
  /\ restorator = IdleRestorator
  /\ queueDelay = NoDelay

(***************************************************************************)
(* Dead-letter queue and replay (queues/restorationQueue.js,               *)
(* queues/deadLetterQueue.js)                                              *)
(***************************************************************************)
NoReplay == [pc |-> "idle", job |-> 0, record |-> "none", error |-> "none",
             enqueued |-> FALSE, again |-> FALSE]

\* dlqJobData: the original payload and the failure record
DlqEntry(j) ==
  [originalJobId |-> j,
   originalData |-> [userId |-> task[j].userId,
                     creditsSpent |-> task[j].creditsSpent],
   failureInfo |-> [error |-> TRUE, attempts |-> task[j].attemptsMade]]

\* queue.on('failed') of the queue getRestorationQueue built: a task that
\* used up its attempts is copied to the dead-letter queue, jobs/<id> is
\* marked failed, and the task is removed from the main queue
FailedListener(j) ==
  /\ task[j].queue = RESTORATION_QUEUE_NAME
  /\ task[j].state = "failed"
  /\ task[j].attemptsMade >= RESTORATION_MAX_ATTEMPTS
  /\ dlq' = Put(dlq, j, DlqEntry(j))
  /\ jobsDocs' = [jobsDocs EXCEPT ![j] = "failed"]
  /\ task' = [task EXCEPT ![j].state = "removed"]
  /\ UNCHANGED <<useFallbackStore, rateVars, svcVars, readVars, credVars, nextJobId, req,
                 idemStore, restorations, replay, mainQueueAdds>>

\* replayJob(dlqJobId): dlq.getJob, and the throw when there is no entry;
\* `again` notes a run for the entry the run before it was for
ReplayStart(j) ==
  /\ replay.pc \in {"idle", "done"}
  /\ replay' = IF j \in DOMAIN dlq
                 THEN [NoReplay EXCEPT !.pc = "check", !.job = j,
                         !.again = (replay.pc = "done" /\ replay.job = j
                                      /\ replay.error # "not-found")]
                 ELSE [NoReplay EXCEPT !.pc = "done", !.job = j,
                                       !.error = "not-found"]
  /\ UNCHANGED <<useFallbackStore, rateVars, svcVars, readVars, credVars, nextJobId, req,
                 idemStore, restorations, task, dlq, jobsDocs, mainQueueAdds>>

\* the status check reads jobs/<originalJobId>; `record` notes what the job
\* record restorations/<originalJobId> holds at that moment
ReplayCheck ==
  /\ replay.pc = "check"
  /\ replay' = IF jobsDocs[replay.job] = "succeeded"
                 THEN [replay EXCEPT !.pc = "done",
                                     !.record = restorations[replay.job].status,
                                     !.error = "already-completed"]
                 ELSE [replay EXCEPT !.pc = "enqueue",
                                     !.record = restorations[replay.job].status]
  /\ UNCHANGED <<useFallbackStore, rateVars, svcVars, readVars, credVars, nextJobId, req,
                 idemStore, restorations, task, dlq, jobsDocs, mainQueueAdds>>

\* a queue module that does export Queue
ImportedQueueIsClass == "class"

\* `const { Queue: RestorationQueue } = await import('./restorationQueue.js')`:
\* that module exports the accessors, QUEUE_NAME and MAX_ATTEMPTS, and no
\* Queue, so the binding is undefined
ImportedQueue == "undefined"

\* a replay that removes the entry before the task is added
ReplayEnqueueRemovesFirst ==
  /\ replay.pc = "enqueue"
  /\ dlq' = [k \in DOMAIN dlq \ {replay.job} |-> dlq[k]]
  /\ replay' = [replay EXCEPT !.pc = "done", !.error = "not-a-constructor"]
  /\ UNCHANGED <<useFallbackStore, rateVars, svcVars, readVars, credVars, nextJobId, req,
                 idemStore, restorations, task, jobsDocs, mainQueueAdds>>

\* a constructor call that builds a queue whatever the binding
NewRestorationQueueBuilds(binding) == "queue"

\* `new RestorationQueue('restoration', {connection})`: a TypeError when the
\* binding is undefined
NewRestorationQueue(binding) ==
  IF binding = "undefined" THEN "TypeError" ELSE "queue"

\* The constructor call throws on the undefined binding and the catch block
\* rethrows.  Otherwise mainQueue.add; once the task is added, the write of
\* jobs/<id>, the job_replays entry and dlqJob.remove(), each of which may
\* reject and end the run with the entry still queued
ReplayEnqueue ==
  /\ replay.pc = "enqueue"
  /\ IF NewRestorationQueue(ImportedQueue) = "TypeError"
       THEN /\ replay' = [replay EXCEPT !.pc = "done",
                                        !.error = "not-a-constructor"]
            /\ UNCHANGED <<task, dlq, jobsDocs, mainQueueAdds>>
       ELSE \/ /\ replay' = [replay EXCEPT !.pc = "done",
                                           !.error = "add-failed"]
               /\ UNCHANGED <<task, dlq, jobsDocs, mainQueueAdds>>
            \/ /\ mainQueueAdds[replay.job] < MaxAdds
               /\ task' = [task EXCEPT ![replay.job].state = "waiting",
                                       ![replay.job].attemptsMade = 0]
               /\ mainQueueAdds' = [mainQueueAdds EXCEPT ![replay.job] = @ + 1]
               /\ \/ /\ jobsDocs' = [jobsDocs EXCEPT ![replay.job] = "queued"]
                     /\ dlq' = [k \in DOMAIN dlq \ {replay.job} |-> dlq[k]]
                     /\ replay' = [replay EXCEPT !.pc = "done",
                                                 !.enqueued = TRUE]
                  \/ /\ jobsDocs' \in {jobsDocs,
                                      [jobsDocs EXCEPT ![replay.job] = "queued"]}
                     /\ replay' = [replay EXCEPT !.pc = "done",
                                                 !.enqueued = TRUE,
                                                 !.error = "after-add"]
                     /\ UNCHANGED dlq
  /\ UNCHANGED <<useFallbackStore, rateVars, svcVars, readVars, credVars, nextJobId, req,
                 idemStore, restorations>>

InitReplay ==
  /\ dlq = <<>>
  /\ jobsDocs = [j \in Jobs |-> "absent"]
  /\ replay = NoReplay
  /\ mainQueueAdds = [j \in Jobs |-> 0]

(***************************************************************************)
(* Specifications                                                          *)
(***************************************************************************)
InitPipeline ==
  /\ req = [r \in Requests |-> IdleReq]
  /\ idemStore = <<>>
  /\ restorations = [j \in Jobs |-> NoRecord]
  /\ task = [j \in Jobs |-> NoTask]

InitCallers ==
  /\ callsMade = 0
  /\ call = [c \in Callers |-> IdleCall]

\* The service called directly for user 1, on the in-process store or on
\* redis.  On redis the day may have seen one earlier job of the user (job
\* 1), debited from a free slot or from the paid balance; the cached balance
\* has expired since and the mirror writes have landed.
InitCredits ==
  /\ InitRate
  /\ InitReplay
  /\ InitReads
  /\ InitServices
  /\ InitPipeline
  /\ InitCallers
  /\ useFallbackStore \in BOOLEAN
  /\ creditsCache = <<>>
  /\ syncPending = {}
  /\ \E b \in 0..MaxBalance : userDocs = [u \in Users |-> IF u = 1 THEN b ELSE 0]
  /\ \/ /\ ledger = <<>>
        /\ nextJobId = 1
        /\ freeUsage \in {<<>>} \cup
             {[u \in {1} |-> n] : n \in {DEFAULT_DAILY_FREE_LIMIT - 1,
                                         DEFAULT_DAILY_FREE_LIMIT}}
     \/ /\ ~useFallbackStore
        /\ ledger = RecordTransaction(<<>>, 1, 1, -1, "free", 0)
        /\ nextJobId = 2
        /\ freeUsage \in {[u \in {1} |-> n] : n \in {1, DEFAULT_DAILY_FREE_LIMIT}}
     \/ /\ ~useFallbackStore
        /\ \E a \in 1..MaxAmount :
             ledger = RecordTransaction(<<>>, 1, 1, 0 - a, "paid", 0)
        /\ nextJobId = 2
        /\ freeUsage = [u \in {1} |-> DEFAULT_DAILY_FREE_LIMIT]

NextCredits ==
  \/ \E c \in Callers : CallCheckAndDeduct(c)
  \/ \E c \in Callers : CallRefund(c)
  \/ \E c \in Callers : CreditsStep(c)
  \/ CreditsCacheExpires

SpecCredits == InitCredits /\ [][NextCredits]_vars

\* The service on redis for a user with no free slot left and nothing on
\* the ledger: every debit is a paid one.  The mirror writes stay in flight,
\* so the user document keeps the balance the run started with.
InitPaidOnly ==
  /\ InitCredits
  /\ ~useFallbackStore
  /\ ledger = <<>>
  /\ freeUsage = [u \in {1} |-> DEFAULT_DAILY_FREE_LIMIT]

SpecPaidOnly == InitPaidOnly /\ [][NextCredits]_vars

\* The service on redis, called by one caller at a time, with the mirror
\* writes of the paid balance landing or failing on their own time.  The user has no free slot left; the day
\* may have seen one earlier job debited from the paid balance.
InitMirror ==
  /\ InitCredits
  /\ ~useFallbackStore
  /\ freeUsage = [u \in {1} |-> DEFAULT_DAILY_FREE_LIMIT]
  /\ \A i \in 1..Len(ledger) : ledger[i].type = "paid"

\* the calls come one after the other: a call starts when none is under way
NoCallUnderWay == \A c \in Callers : call[c].pc = "idle"

NextMirror ==
  \/ \E c \in Callers : NoCallUnderWay /\ CallCheckAndDeduct(c)
  \/ \E c \in Callers : NoCallUnderWay /\ CallRefund(c)
  \/ \E c \in Callers : CreditsStep(c)
  \/ CreditsCacheExpires
  \/ SyncCreditsToFirestore
  \/ SyncCreditsFails

SpecMirror == InitMirror /\ [][NextMirror]_vars

\* the API instance: every user has one free slot left today and the same
\* paid balance
Init ==
  /\ InitRate
  /\ InitReplay
  /\ InitReads
  /\ InitServices
  /\ InitPipeline
  /\ InitCallers
  /\ useFallbackStore \in BOOLEAN
  /\ creditsCache = <<>>
  /\ ledger = <<>>
  /\ syncPending = {}
  /\ nextJobId = 1
  /\ freeUsage = [u \in Users |-> DEFAULT_DAILY_FREE_LIMIT - 1]
  /\ \E b \in 0..MaxBalance : userDocs = [u \in Users |-> b]

Next ==
  \/ \E r \in Requests : idempotencyHandler(r)
  \/ \E r \in Requests : AdmitAndModerate(r)
  \/ \E r \in Requests : Deduct(r)
  \/ \E r \in Requests : CreateJobRecord(r)
  \/ \E r \in Requests : EnqueueAndRespond(r)
  \/ \E r \in Requests : CatchRefund(r)
  \/ \E r \in Requests : IdempotencyFinish(r)

Spec == Init /\ [][Next]_vars

\* the API instance serving one client
NextClient ==
  \/ \E r \in Requests : ClientSubmits(r)
  \/ \E r \in Requests : AdmitAndModerate(r)
  \/ \E r \in Requests : Deduct(r)
  \/ \E r \in Requests : CreateJobRecord(r)
  \/ \E r \in Requests : EnqueueAndRespond(r)
  \/ \E r \in Requests : CatchRefund(r)
  \/ \E r \in Requests : IdempotencyFinish(r)

SpecClient == Init /\ [][NextClient]_vars

\* the store serving take calls, on redis until an eval fails
InitTakes ==
  /\ InitRate
  /\ InitReplay
  /\ InitReads
  /\ InitServices
  /\ InitPipeline
  /\ InitCallers
  /\ useFallbackStore \in BOOLEAN
  /\ freeUsage = <<>>
  /\ creditsCache = <<>>
  /\ userDocs = [u \in Users |-> 0]
  /\ ledger = <<>>
  /\ syncPending = {}
  /\ nextJobId = 1

NextTakes ==
  \/ \E c \in Callers : TakeFallback(c)
  \/ \E c \in Callers : TakeStart(c)
  \/ \E c \in Callers : TakeEval(c)
  \/ \E c \in Callers : TakeEvalFails(c)
  \/ Tick

SpecTakes == InitTakes /\ [][NextTakes]_vars

\* successive requests of one user from one address through the middleware
InitLimiter == InitTakes

NextLimiter ==
  \/ LimiterArrives
  \/ LimiterTake
  \/ LimiterHeaders
  \/ TakeEval(LimiterCaller)
  \/ TakeEvalFails(LimiterCaller)
  \/ Tick

SpecLimiter == InitLimiter /\ [][NextLimiter]_vars

\* the same calls given to the three bucket stores, each empty at first;
\* the limit of a call ranges over 0..RateLimit and its window over
\* 1..RateInterval
NextBuckets ==
  \/ \E key \in RateKeys, limit \in 0..RateLimit, interval \in 1..RateInterval :
       TakeEverywhere(key, limit, interval)
  \/ Tick

SpecBuckets == InitTakes /\ [][NextBuckets]_vars

\* the ledger after the jobs 1..n of user u were debited, the first k from
\* free slots and the others from the paid balance
RECURSIVE AdmittedLedger(_, _, _)
AdmittedLedger(u, n, k) ==
  IF n = 0 THEN <<>>
  ELSE RecordTransaction(AdmittedLedger(u, n - 1, k), u, n,
                         0 - DEFAULT_CREDIT_COST,
                         IF n <= k THEN "free" ELSE "paid", 0)

\* the worker process: POST /jobs has admitted every job for user 1 (debit,
\* record with status queued, task waiting); b is what is left of the paid
\* balance
InitWorker ==
  /\ InitRate
  /\ InitReplay
  /\ InitReads
  /\ InitServices
  /\ InitCallers
  /\ req = [r \in Requests |-> IdleReq]
  /\ idemStore = <<>>
  /\ useFallbackStore = FALSE
  /\ syncPending = {}
  /\ nextJobId = NumRequests + 1
  /\ \E k \in 0..NumRequests, b \in 0..MaxBalance :
       /\ ledger = AdmittedLedger(1, NumRequests, k)
       /\ freeUsage = [u \in {1} |-> IF k < NumRequests
                                       THEN DEFAULT_DAILY_FREE_LIMIT ELSE k]
       /\ userDocs = [u \in Users |-> IF u = 1 THEN b ELSE 0]
       /\ creditsCache = IF k < NumRequests
                           THEN [u \in {1} |-> [v |-> b, ttl |-> TRUE]]
                           ELSE <<>>
       /\ restorations = [j \in Jobs |->
            [NoRecord EXCEPT !.status = "queued", !.userId = 1,
               !.credit = [amount |-> DEFAULT_CREDIT_COST,
                           type |-> IF j <= k THEN "free" ELSE "paid"]]]
       /\ task = [j \in Jobs |->
            [NoTask EXCEPT !.state = "waiting", !.userId = 1,
                           !.queue = DEFAULT_QUEUE_NAME,
                           !.creditsSpent = DEFAULT_CREDIT_COST]]

NextWorker ==
  \/ \E j \in Jobs : WorkerTake(j)
  \/ \E j \in Jobs : MarkRunning(j)
  \/ \E j \in Jobs : Restore(j)
  \/ \E j \in Jobs : MarkSucceeded(j)
  \/ \E j \in Jobs : MarkFailed(j)
  \/ \E j \in Jobs : RefundAndRethrow(j)

SpecWorker == InitWorker /\ [][NextWorker]_vars

\* the job added to the 'restoration' queue with addRestorationJob
RestorationJob == NumRequests

\* the worker process with the jobs below RestorationJob admitted by POST
\* /jobs for user 1, and one task of the 'restoration' queue that has used
\* up its attempts; its job record is failed, or succeeded where another
\* delivery of the task completed the job
InitDlq ==
  /\ InitRate
  /\ InitReplay
  /\ InitReads
  /\ InitServices
  /\ InitCallers
  /\ req = [r \in Requests |-> IdleReq]
  /\ idemStore = <<>>
  /\ useFallbackStore = FALSE
  /\ syncPending = {}
  /\ nextJobId = NumRequests + 1
  /\ \E k \in 0..(NumRequests - 1), b \in 0..MaxBalance,
        st \in {"failed", "succeeded"} :
       /\ ledger = AdmittedLedger(1, NumRequests - 1, k)
       /\ freeUsage = [u \in {1} |-> IF k < NumRequests - 1
                                       THEN DEFAULT_DAILY_FREE_LIMIT ELSE k]
       /\ userDocs = [u \in Users |-> IF u = 1 THEN b ELSE 0]
       /\ creditsCache = IF k < NumRequests - 1
                           THEN [u \in {1} |-> [v |-> b, ttl |-> TRUE]]
                           ELSE <<>>
       /\ restorations = [j \in Jobs |->
            IF j = RestorationJob
              THEN [NoRecord EXCEPT !.status = st, !.userId = 1,
                      !.error = (st = "failed"),
                      !.attemptsMade = RESTORATION_MAX_ATTEMPTS - 1]
              ELSE [NoRecord EXCEPT !.status = "queued", !.userId = 1,
                      !.credit = [amount |-> DEFAULT_CREDIT_COST,
                                  type |-> IF j <= k THEN "free" ELSE "paid"]]]
       /\ task = [j \in Jobs |->
            IF j = RestorationJob
              THEN [NoTask EXCEPT !.state = "failed", !.userId = 1,
                      !.queue = RESTORATION_QUEUE_NAME,
                      !.attemptsMade = RESTORATION_MAX_ATTEMPTS,
                      !.deliveries = RESTORATION_MAX_ATTEMPTS]
              ELSE [NoTask EXCEPT !.state = "waiting", !.userId = 1,
                      !.queue = DEFAULT_QUEUE_NAME,
                      !.creditsSpent = DEFAULT_CREDIT_COST]]

WorkerStep ==
  \E j \in Jobs : \/ WorkerTake(j) \/ MarkRunning(j) \/ Restore(j)
                  \/ MarkSucceeded(j) \/ MarkFailed(j) \/ RefundAndRethrow(j)

NextDlq ==
  \/ \E j \in Jobs : WorkerTake(j)
  \/ \E j \in Jobs : MarkRunning(j)
  \/ \E j \in Jobs : Restore(j)
  \/ \E j \in Jobs : MarkSucceeded(j)
  \/ \E j \in Jobs : MarkFailed(j)
  \/ \E j \in Jobs : RefundAndRethrow(j)
  \/ \E j \in Jobs : FailedListener(j)
  \/ \E j \in Jobs : ReplayStart(j)
  \/ ReplayCheck
  \/ ReplayEnqueue

SpecDlq == InitDlq /\ [][NextDlq]_vars

\* the worker, the listener and a replay under way are driven by the event
\* loop and always get to run; whether a replay is started is the operator's
\* choice
SpecDlqFair ==
  /\ SpecDlq
  /\ WF_vars(WorkerStep)
  /\ WF_vars(\E j \in Jobs : FailedListener(j))
  /\ WF_vars(ReplayCheck \/ ReplayEnqueue)

\* the job whose record the reads are about
ReadJob == CHOOSE j \in Jobs : \A i \in Jobs : j <= i

\* POST /jobs has admitted ReadJob for user 1; the other job ids name no
\* record
InitLookup ==
  /\ InitRate
  /\ InitReplay
  /\ InitReads
  /\ InitServices
  /\ InitCallers
  /\ req = [r \in Requests |-> IdleReq]
  /\ idemStore = <<>>
  /\ useFallbackStore = FALSE
  /\ syncPending = {}
  /\ nextJobId = ReadJob + 1
  /\ \E k \in 0..ReadJob, b \in 0..MaxBalance :
       /\ ledger = AdmittedLedger(1, ReadJob, k)
       /\ freeUsage = [u \in {1} |-> IF k < ReadJob
                                       THEN DEFAULT_DAILY_FREE_LIMIT ELSE k]
       /\ userDocs = [u \in Users |-> IF u = 1 THEN b ELSE 0]
       /\ creditsCache = IF k < ReadJob
                           THEN [u \in {1} |-> [v |-> b, ttl |-> TRUE]]
                           ELSE <<>>
       /\ restorations = [j \in Jobs |->
            IF j = ReadJob
              THEN [NoRecord EXCEPT !.status = "queued", !.userId = 1,
                      !.credit = [amount |-> DEFAULT_CREDIT_COST,
                                  type |-> IF j <= k THEN "free" ELSE "paid"]]
              ELSE NoRecord]
       /\ task = [j \in Jobs |->
            IF j = ReadJob
              THEN [NoTask EXCEPT !.state = "waiting", !.userId = 1,
                      !.queue = DEFAULT_QUEUE_NAME,
                      !.creditsSpent = DEFAULT_CREDIT_COST]
              ELSE NoTask]

NextLookup ==
  \/ \E j \in Jobs : WorkerTake(j)
  \/ \E j \in Jobs : MarkRunning(j)
  \/ \E j \in Jobs : Restore(j)
  \/ \E j \in Jobs : MarkSucceeded(j)
  \/ \E j \in Jobs : MarkFailed(j)
  \/ \E j \in Jobs : RefundAndRethrow(j)
  \/ \E u \in Users, j \in Jobs : GetJob(u, j)
  \/ \E u \in Users, j \in Jobs : StreamOpen(u, j)

SpecLookup == InitLookup /\ [][NextLookup]_vars

NextStream ==
  \/ \E j \in Jobs : WorkerTake(j)
  \/ \E j \in Jobs : MarkRunning(j)
  \/ \E j \in Jobs : Restore(j)
  \/ \E j \in Jobs : MarkSucceeded(j)
  \/ \E j \in Jobs : MarkFailed(j)
  \/ \E j \in Jobs : RefundAndRethrow(j)
  \/ \E u \in Users, j \in Jobs : StreamOpen(u, j)
  \/ StreamSnapshot
  \/ StreamPeerCloses

SpecStream == InitLookup /\ [][NextStream]_vars

\* the stream with its heartbeat timer and a record listener that may fail
NextSse ==
  \/ \E j \in Jobs : WorkerTake(j)
  \/ \E j \in Jobs : MarkRunning(j)
  \/ \E j \in Jobs : Restore(j)
  \/ \E j \in Jobs : MarkSucceeded(j)
  \/ \E j \in Jobs : MarkFailed(j)
  \/ \E j \in Jobs : RefundAndRethrow(j)
  \/ \E u \in Users, j \in Jobs : StreamOpen(u, j)
  \/ StreamSnapshot
  \/ StreamPeerCloses
  \/ StreamSubscriptionError
  \/ StreamHeartbeat

SpecSse == InitLookup /\ [][NextSse]_vars

\* the worker and the record listener keep running; the peer may stay
\* connected for ever
SpecStreamFair ==
  /\ SpecStream
  /\ WF_vars(WorkerStep)
  /\ WF_vars(StreamSnapshot)

\* one call of restore; exponentialBackoff is given 1..GEMINI_ATTEMPTS as
\* its attempts option (restoreImage passes GEMINI_ATTEMPTS)
InitRestore ==
  /\ InitRate
  /\ InitReplay
  /\ InitReads
  /\ InitPipeline
  /\ InitCallers
  /\ useFallbackStore = FALSE
  /\ freeUsage = <<>>
  /\ creditsCache = <<>>
  /\ userDocs = [u \in Users |-> 0]
  /\ ledger = <<>>
  /\ syncPending = {}
  /\ nextJobId = 1
  /\ queueDelay = NoDelay
  /\ \E n \in 1..GEMINI_ATTEMPTS :
       restorator = [IdleRestorator EXCEPT !.attempts = n]

NextRestore ==
  \/ RestoreStart
  \/ Classify
  \/ Enhance
  \/ ProviderCall
  \/ ProviderSleep
  \/ RestoreReturn
  \/ RestoreCatch

SpecRestore == InitRestore /\ [][NextRestore]_vars

\* the queue configured with a base delay of 1..MaxBase ms and a jitter
\* ratio, asked for retry delays
InitBackoff ==
  /\ InitRate
  /\ InitReplay
  /\ InitReads
  /\ InitPipeline
  /\ InitCallers
  /\ useFallbackStore = FALSE
  /\ freeUsage = <<>>
  /\ creditsCache = <<>>
  /\ userDocs = [u \in Users |-> 0]
  /\ ledger = <<>>
  /\ syncPending = {}
  /\ nextJobId = 1
  /\ restorator = IdleRestorator
  /\ \E base \in 1..MaxBase, jt \in JitterTenths :
       queueDelay = [NoDelay EXCEPT !.base = base, !.jitter = jt]

NextBackoff ==
  \E attemptsMade \in 1..MaxAttemptsMade, r \in 0..(RandomSteps - 1) :
    BackoffStrategy(attemptsMade, r)

SpecBackoff == InitBackoff /\ [][NextBackoff]_vars

(***************************************************************************)
(* Properties                                                              *)
(***************************************************************************)
TerminalStatus == {"succeeded", "failed"}

\* C1: once the status of a job record is succeeded or failed, no later
\* write changes it, and every status change follows
\* queued -> running -> {succeeded, failed}.
C1_TerminalStatusIsFinal ==
  [][\A j \in Jobs :
       /\ restorations[j].status \in TerminalStatus
            => restorations'[j].status = restorations[j].status
       /\ restorations'[j].status # restorations[j].status
            => \/ restorations[j].status = "absent"
                    /\ restorations'[j].status = "queued"
               \/ restorations[j].status = "queued"
                    /\ restorations'[j].status = "running"
               \/ restorations[j].status = "running"
                    /\ restorations'[j].status \in TerminalStatus]_vars

\* the queue engine is done with the task of job j
TaskSettled(j) == task[j].state \in {"completed", "failed"}

\* C2: a job that has reached a terminal status has exactly one debit on
\* the ledger, with no refund if it succeeded and exactly one refund if it
\* failed, whatever the number of worker attempts.
C2_OneDebitAndMatchingRefund ==
  \A j \in Jobs :
    TaskSettled(j) /\ restorations[j].status \in TerminalStatus
      => /\ Cardinality(DebitsOfJob(ledger, j)) = 1
         /\ Cardinality(RefundsOfJob(ledger, j)) =
              IF restorations[j].status = "succeeded" THEN 0 ELSE 1

\* the step of caller c in which the compare-and-decrement script debits
PaidDebitStep(c) ==
  call[c].pc = "cd_paid_eval" /\ call'[c].pc = "cd_paid_ledger"

\* C3: under any interleaving of checkAndDeduct and refund calls for a user
\* the cached paid balance is never negative, and a paid debit of amount a
\* goes through only when the balance at that instant is at least a (and
\* takes exactly a from it).
C3_PaidBalanceNeverOverdrawn ==
  /\ [](\A u \in DOMAIN creditsCache : creditsCache[u].v >= 0)
  /\ [][\A c \in Callers :
          PaidDebitStep(c) =>
            LET u == call[c].userId
            IN  /\ u \in DOMAIN creditsCache
                /\ creditsCache[u].v >= call[c].amount
                /\ creditsCache'[u].v = creditsCache[u].v - call[c].amount]_vars

\* a paid debit has just gone through for one caller while another call of
\* the same user was denied for lack of balance, and a refund is in flight
\* or a second paid debit is
C3_Witness ==
  \E c, d \in Callers :
    /\ c # d
    /\ call[c].pc = "cd_paid_ledger"
    /\ call[c].userId \in DOMAIN creditsCache
    /\ \/ call[d].result.kind = "denied"
       \/ call[d].pc \in {"rf_paid_incr", "rf_paid_expire", "cd_paid_ledger"}

\* C4: under any interleaving of checkAndDeduct and refund calls the free
\* counter of a user stays within [0, daily limit].
C4_FreeCounterInRange ==
  \A u \in DOMAIN freeUsage :
    freeUsage[u] >= 0 /\ freeUsage[u] <= DEFAULT_DAILY_FREE_LIMIT

\* C5: refunds of the same job append at most one refund entry to the
\* ledger: a second refund finds no outstanding debit.
C5_RefundAppendsAtMostOnce ==
  \A i \in 1..Len(ledger) :
    Cardinality(RefundsOfJob(ledger, ledger[i].jobId)) <= 1

\* request a was sent only after request b had completed
SentAfter(a, b) == b \in req[a].after
SameOwnerAndKey(a, b) ==
  req[a].userId = req[b].userId /\ req[a].key = req[b].key
\* request r was admitted: a miss that got the 202
Admitted(r) ==
  req[r].pc = "done" /\ req[r].hit = "miss" /\ req[r].response.status = 202
\* request r went through the handler far enough to get a job id and a debit
CreatedJob(r) == req[r].creditsReserved > 0
\* the finish handler of request r has called backingStore.set
WroteEntry(r) ==
  /\ req[r].pc = "done" /\ req[r].hit = "miss"
  /\ req[r].response.status >= 200 /\ req[r].response.status < 500

\* C6: after a POST /jobs (U, K, P) has completed with 202, a later POST
\* /jobs with the same U, K and P returns that first response and creates
\* no job record, debit or task.
C6_SameRequestIsReplayed ==
  \A a, b \in Requests :
    Admitted(a) /\ SentAfter(b, a) /\ SameOwnerAndKey(a, b)
      /\ req[a].payload = req[b].payload
      => /\ ~CreatedJob(b)
         /\ req[b].pc = "done"
              => /\ req[b].response.status = 202
                 /\ req[b].response.jobId = req[a].response.jobId

\* C7: after an admission with key K and payload P, a POST /jobs with the
\* same K and another payload (another JSON body or another image) gets
\* 409 and creates no job record or debit.
C7_DivergentPayloadConflicts ==
  \A a, b \in Requests :
    Admitted(a) /\ SentAfter(b, a) /\ SameOwnerAndKey(a, b)
      /\ req[a].payload # req[b].payload
      => /\ ~CreatedJob(b)
         /\ req[b].pc = "done" => req[b].response.status = 409

\* C8: of two overlapping POST /jobs of one user with the same key and
\* payload, at most one writes the idempotency entry and at most one gets a
\* job and a debit.
C8_OverlappingRequestsAdmitOnce ==
  \A a, b \in Requests :
    a # b /\ a \in Arrived /\ b \in Arrived
      /\ ~SentAfter(a, b) /\ ~SentAfter(b, a)
      /\ SameOwnerAndKey(a, b) /\ req[a].payload = req[b].payload
      => /\ ~(CreatedJob(a) /\ CreatedJob(b))
         /\ ~(WroteEntry(a) /\ WroteEntry(b))

\* C9: idempotency entries are scoped by owner: the first request of user B
\* with a key that only another user has used is a miss.
C9_EntriesScopedByOwner ==
  \A a, b \in Requests :
    /\ SentAfter(b, a) /\ req[a].key = req[b].key
    /\ req[a].userId # req[b].userId
    /\ \A c \in Arrived \ {b} : ~SameOwnerAndKey(c, b)
    => req[b].hit = "miss"

\* C10: when creating the job record or enqueueing fails after the debit,
\* the error response is a server error, and before it is sent the debit is
\* refunded and the job record is marked failed.
C10_FailureAfterDebitIsUndone ==
  \A r \in Requests :
    req[r].failure # "none" /\ req[r].pc \in {"finish", "done"}
      => /\ req[r].response.status >= 500
         /\ RefundsOfJob(ledger, req[r].jobId) # {}
         /\ restorations[req[r].jobId].status = "failed"

\* the requests whose moderation verdict was allowed=true
ModeratedAllowed == {r \in Requests : req[r].moderation = "allowed"}

\* C11: a debit, a job record and a task exist only for a request whose
\* moderation verdict was allowed; a request whose verdict is reject, or
\* whose moderation call failed, ends with an error and creates none of them.
C11_ModerationGatesAdmission ==
  /\ \A r \in Requests :
       req[r].moderation \in {"rejected", "failed"}
         => /\ req[r].jobId = 0
            /\ ~CreatedJob(r)
            /\ req[r].pc \in {"finish", "done"}
            /\ req[r].response.status >= 400
  /\ \A i \in 1..Len(ledger) :
       \E r \in ModeratedAllowed : req[r].jobId = ledger[i].jobId
  /\ \A j \in Jobs :
       restorations[j].status # "absent" \/ task[j].state # "none"
         => \E r \in ModeratedAllowed : req[r].jobId = j

\* one request was stopped by moderation (rejected, or the call failed)
\* while another one was admitted with a debit, a record and a task
C11_Witness ==
  \E r, q \in Requests :
    /\ req[r].moderation \in {"rejected", "failed"} /\ req[r].pc = "done"
    /\ req[q].moderation = "allowed" /\ CreatedJob(q)
    /\ DebitsOfJob(ledger, req[q].jobId) # {}
    /\ restorations[req[q].jobId].status = "queued"
    /\ task[req[q].jobId].state = "waiting"

\* C12: for each bucket key, between the creation of a window and its reset
\* instant at most `limit` takes are admitted, however the calls interleave.
C12_AtMostLimitPerWindow ==
  \A w \in windows : w.admitted <= RateLimit

C14_FailedTaskIsDeadLettered ==
  \A j \in Jobs :
    (task[j].queue = DEFAULT_QUEUE_NAME /\ task[j].state = "failed")
      ~> (/\ j \in DOMAIN dlq
          /\ dlq[j].originalData.userId = task[j].userId
          /\ restorations[j].status = "failed")

\* C15: when the worker receives a task whose job record is already
\* succeeded or failed, its step for that task writes no field of the
\* record, touches no credit state, and ends the task as completed without
\* reaching the provider call or the refund.
C15_DuplicateDeliveryWritesNothing ==
  [][\A j \in Jobs :
       (/\ task[j].state = "active" /\ task[j].pc = "mark_running"
        /\ restorations[j].status \in TerminalStatus
        /\ task'[j] # task[j])
         => /\ restorations'[j] = restorations[j]
            /\ UNCHANGED storeVars
            /\ task'[j].state = "completed"]_vars

\* C16: the worker's catch block changes credit state (counter, balance or
\* ledger) only when the failed attempt is the last one the task is allowed;
\* a failed attempt the engine will retry refunds nothing.
C16_RefundOnlyOnFinalAttempt ==
  [][\A j \in Jobs :
       (/\ task[j].pc = "refund" /\ task'[j].pc # "refund"
        /\ \/ ledger' # ledger \/ freeUsage' # freeUsage
           \/ creditsCache' # creditsCache \/ userDocs' # userDocs)
         => AfterFailedAttempt(task[j].attemptsMade + 1) = "failed"]_vars

DebitEntries(l) == {i \in 1..Len(l) : l[i].amount < 0}

C20_EntryStoredIffBelow500 ==
  [][\A r \in Requests :
       (req[r].pc = "finish" /\ req'[r].pc = "done" /\ req[r].hit = "miss")
         => IF req[r].response.status >= 200 /\ req[r].response.status < 500
              THEN req[r].key \in DOMAIN idemStore'
              ELSE idemStore' = idemStore]_vars

\* the paid balance the service works with: the cached value, or the user
\* document when the cache holds none
PaidBalance(cache, docs, u) == IF u \in DOMAIN cache THEN cache[u].v ELSE docs[u]

C22_FreeSlotBeforePaid ==
  [][\A c \in Callers :
       /\ (/\ call[c].pc = "cd_free_eval" /\ call'[c] # call[c]
           /\ ParseUsed(freeUsage, call[c].userId) < DEFAULT_DAILY_FREE_LIMIT)
            => /\ call'[c].pc = "cd_free_ledger"
               /\ ParseUsed(freeUsage', call[c].userId)
                    = ParseUsed(freeUsage, call[c].userId) + 1
               /\ creditsCache' = creditsCache
       /\ (call[c].pc = "cd_usage" /\ call'[c].pc = "cd_paid_get")
            => ParseUsed(freeUsage, call[c].userId) >= DEFAULT_DAILY_FREE_LIMIT]_vars

\* C23: after a paid debit of amount a for job J and then refund(J, a), with
\* no other call, the paid balance is the balance before the debit, and the
\* ledger holds one debit and one refund for J, the refund naming the id of
\* the debit.
C23_PaidRefundRestoresBalance ==
  (/\ \A c \in Callers : call[c].pc = "idle"
   /\ callsMade = 2 /\ Len(ledger) = 2
   /\ ledger[1].type = "paid" /\ ledger[2].type = "refund"
   /\ ledger[2].jobId = ledger[1].jobId)
    => /\ PaidBalance(creditsCache, userDocs, 1) = userDocs[1]
       /\ ledger[2].originalTransactionId = ledger[1].id
       /\ ledger[2].amount = 0 - ledger[1].amount


\* C24: every response of the rate limiter carries a RateLimit-Remaining that
\* is at most its RateLimit-Limit, and from one response to the next of the
\* same user and address the RateLimit-Remaining does not go up unless a
\* bucket window was reset in between.
C24_RemainingNeverGoesUp ==
  [][limiter'.served # limiter.served
       => /\ limiter'.sent.remaining <= limiter'.sent.limit
          /\ (limiter.sent # NoHeaders /\ ~limiter.windowReset)
               => limiter'.sent.remaining <= limiter.sent.remaining]_vars


StreamedJobIsDone ==
  /\ reads.stream.job \in Jobs
  /\ restorations[reads.stream.job].status \in {"succeeded", "failed"}
  /\ task[reads.stream.job].state \in {"completed", "failed"}

\* C26: once the job record has reached succeeded or failed, an open event
\* stream for the job sends a last status event with that terminal
\* projection and is then closed by the server, without the peer having to
\* disconnect.
C26_StreamClosesOnTerminal ==
  /\ (reads.stream.pc = "open" /\ StreamedJobIsDone)
       ~> (\/ reads.stream.pc = "closed"
           \/ /\ reads.stream.pc = "open"
              /\ reads.stream.last.jobStatus
                    = restorations[reads.stream.job].status)
  /\ (reads.stream.pc = "open" /\ StreamedJobIsDone)
       ~> (reads.stream.pc = "closed")


\* C27: in every state of a job record, a result object name is present
\* exactly when the status is succeeded, and an error record is present
\* exactly when the status is failed.
C27_ResultIffSucceededErrorIffFailed ==
  \A j \in Jobs :
    restorations[j].status # "absent"
      => /\ restorations[j].resultObjectName
              <=> (restorations[j].status = "succeeded")
         /\ restorations[j].error <=> (restorations[j].status = "failed")


\* what a checkAndDeduct run in one piece from the present store can answer
\* and leave behind
DebitOutcomes(u, amount, fallback) ==
  {[result |-> o.f.result, S |-> o.S] :
     o \in checkAndDeduct(Store, u, amount, nextJobId, fallback)}

\* C28: with the key-value store in its in-process mode, checkAndDeduct
\* gives the results and the state changes it gives on the shared store for
\* the same calls made one after the other: a free slot is consumed when
\* one is left, and a paid debit succeeds exactly when the balance covers
\* the amount.
C28_FallbackDebitsLikeRedis ==
  (\A c \in Callers : call[c].pc = "idle")
    => \A u \in DOMAIN userDocs, a \in 1..MaxAmount :
         DebitOutcomes(u, a, TRUE) = DebitOutcomes(u, a, FALSE)


\* C29: for a first successful admission the 202 response is in the
\* idempotency store, under the request's key, by the time the response has
\* been emitted, so a retry sent after the client has the 202 finds it.
C29_EntryStoredBeforeResponse ==
  \A r \in Requests :
    (/\ req[r].pc \in {"finish", "done"}
     /\ req[r].hit = "miss"
     /\ req[r].response.status = 202)
      => req[r].key \in DOMAIN idemStore


\* C30: for every sequence of take calls (key, limit, interval, time), each
\* in-process bucket store returns the (allowed, remaining, reset) that the
\* shared-store script returns, all started from an empty store.
C30_InProcessStoresMatchScript ==
  /\ lockstep.fallback = lockstep.script
  /\ lockstep.memory = lockstep.script


\* C31: exponentialBackoff calls fn at most `attempts` times (3 for the
\* provider call), stops at the first call that succeeds and returns its
\* result, and when every call fails it throws the error of the last call
\* after exactly `attempts` calls.
C31_BackoffCallsAtMostAttempts ==
  /\ restorator.calls <= restorator.attempts
  /\ restorator.attempts <= GEMINI_ATTEMPTS
  /\ restorator.returned # 0
       => /\ restorator.returned = restorator.calls
          /\ restorator.failed = "none"
  /\ restorator.failed = "provider"
       => /\ restorator.calls = restorator.attempts
          /\ restorator.returned = 0
          /\ restorator.error = restorator.lastError
          /\ restorator.error.message = <<"provider", restorator.attempts>>

\* the provider call failed GEMINI_ATTEMPTS times and the last error was
\* thrown
C31_Witness ==
  /\ restorator.failed = "provider"
  /\ restorator.attempts = GEMINI_ATTEMPTS
  /\ restorator.calls = GEMINI_ATTEMPTS


\* C33: restore does not throw when the classifier, the prompt enhancer or
\* the provider fails; it returns success = false with the message of the
\* error and its code, RESTORATION_FAILED when the error has none.
C33_RestoreReturnsStructuredError ==
  (restorator.pc = "done" /\ restorator.failed # "none")
    => /\ ~restorator.result.thrown
       /\ ~restorator.result.success
       /\ restorator.result.error.message = restorator.error.message
       /\ restorator.result.error.code =
            (IF restorator.error.code = "none" THEN "RESTORATION_FAILED"
                                               ELSE restorator.error.code)

\* the provider failed on every attempt with an error that has no code,
\* and restore has returned
C33_Witness ==
  /\ restorator.pc = "done"
  /\ restorator.failed = "provider"
  /\ restorator.error.code = "none"
  /\ restorator.result.error.code = "RESTORATION_FAILED"

\* C34: the prompt carries the "subtle enhancements only" sentence exactly
\* when no degradation kind has a score above 0.3 and no user prompt was
\* given.
C34_SubtleOnlyWithoutIssuesAndPrompt ==
  restorator.prompt # NoPrompt
    => (("subtle enhancements only" \in restorator.prompt.parts)
          <=> (/\ \A k \in Kinds : restorator.degradation[k] <= 3
               /\ restorator.userPrompt \in {"none", "blank"}))


\* C32: for every attempt number n >= 1 the retry delay of the queue is a
\* whole number of milliseconds between base*2^(n-1)*(1-j) and
\* base*2^(n-1)*(1+j), and never below 0.
C32_DelayWithinJitterBand ==
  queueDelay.attemptsMade >= 1
    => /\ queueDelay.delay >= 0
       /\ queueDelay.delay * DelayDen
            >= MinNum(queueDelay.base, queueDelay.jitter, queueDelay.attemptsMade)
       /\ queueDelay.delay * DelayDen
            <= MaxNum(queueDelay.base, queueDelay.jitter, queueDelay.attemptsMade)

\* C32 (amended): the retry delay is a whole number of milliseconds, never
\* below 0, and within half a millisecond of the band from
\* base*2^(n-1)*(1-j), or 0 where that is negative, to base*2^(n-1)*(1+j).
C32_DelayWithinRoundedBand ==
  queueDelay.attemptsMade >= 1
    => /\ queueDelay.delay >= 0
       /\ 2 * queueDelay.delay * DelayDen + DelayDen
            > 2 * Max(0, MinNum(queueDelay.base, queueDelay.jitter,
                                queueDelay.attemptsMade))
       /\ 2 * queueDelay.delay * DelayDen - DelayDen
            <= 2 * MaxNum(queueDelay.base, queueDelay.jitter,
                          queueDelay.attemptsMade)

\* a base delay of 2 ms with the default jitter: the draw at the bottom of
\* the band, 1.4 ms, is rounded to 1 ms
C32_Witness ==
  /\ queueDelay.base = 2
  /\ queueDelay.jitter = 3
  /\ queueDelay.attemptsMade = 1
  /\ queueDelay.random = 0
  /\ queueDelay.delay = 1


\* the sum of the amounts of the ledger entries l[i], i in the set `entries`
RECURSIVE TotalAmount(_, _)
TotalAmount(l, entries) ==
  IF entries = {} THEN 0
  ELSE LET i == CHOOSE e \in entries : TRUE
       IN  l[i].amount + TotalAmount(l, entries \ {i})

\* C35: for every job, whatever the worker attempts that failed and were
\* retried, the refunds booked for the job never add up to more than what
\* was debited for it.
C35_RefundsNeverExceedDebit ==
  \A j \in Jobs :
    TotalAmount(ledger, RefundsOfJob(ledger, j))
      <= 0 - TotalAmount(ledger, DebitsOfJob(ledger, j))

\* C36: a paid refund of amount a makes the balance the one the user had
\* (the cached value, or the user document once the cached key has expired)
\* plus a, and that value is the one handed to the mirror write of the user
\* document.
C36_PaidRefundAddsToDurableBalance ==
  [][\A c \in Callers :
       /\ (call[c].pc = "rf_paid_incr" /\ call'[c].pc = "rf_paid_expire")
            => call'[c].balance =
                 PaidBalance(creditsCache, userDocs, call[c].userId)
                   + call[c].amount
       /\ (call[c].pc = "rf_paid_expire" /\ call'[c].pc = "rf_ledger")
            => [userId |-> call[c].userId, balance |-> call[c].balance]
                 \in syncPending']_vars

\* C37: when two paid balance changes of the user have completed one after
\* the other (the ledger holds their two entries after the one of the
\* earlier job) and their mirror writes have landed or failed, the user
\* document holds the balance after the later change at the moment the
\* cached balance expires, so that the next reload yields that balance.
C37_ReloadYieldsLatestBalance ==
  [][(/\ NoCallUnderWay
      /\ Len(ledger) >= 3
      /\ syncPending = {}
      /\ 1 \in DOMAIN creditsCache /\ 1 \notin DOMAIN creditsCache')
       => userDocs[1] = creditsCache[1].v]_vars

C39_EndedStreamIsCleanedUp ==
  /\ reads.stream.pc \in {"ended", "closed"}
       => ~reads.stream.heartbeat /\ ~reads.stream.subscribed
  /\ ~reads.stream.lateWrite

\* C40: a request the rate limiter has answered with 429 has taken no token
\* from a bucket other than the one that refused it: the user bucket is
\* consulted first and the loop stops at the first refusal.
C40_DeniedRequestTakesNoOtherToken ==
  (limiter.pc = "idle" /\ limiter.sent.status = "429") => limiter.taken = {}
====
